---- MODULE Spec2Model ----
(***************************************************************************)
(* A model of the funyu markup parser (src/funyu.py).                      *)
(*                                                                         *)
(* A Python str is a sequence of one-character strings, so that strip,     *)
(* split, join, startswith and slicing are computed character by           *)
(* character.  A Python object is a record of its attributes.  A method    *)
(* that can raise returns a record [self, exc]: the object as the call     *)
(* left it (Python keeps every mutation made before a raise) and the       *)
(* exception that left the call, NoExc when it returned normally.          *)
(***************************************************************************)
EXTENDS Integers, Sequences, FiniteSets, TLC

VARIABLES
    h,        \* the Funyu document object
    raised,   \* the exception that left the last Funyu.feed call (NoExc: none)
    fed,      \* history: one record per Funyu.feed call made on h, in order
    pending   \* lines the running Funyu.parse call has still to feed

vars == <<h, raised, fed, pending>>

----------------------------------------------------------------------------
(* Python str operations, on sequences of characters *)

None == <<>>

Some(x) == <<x>>

\* str.isspace for the characters of the model's alphabet
IsSpace(c) == c \in {" ", "\t", "\n", "\r"}

RECURSIVE LStrip(_)
LStrip(s) ==
    IF s # <<>> /\ IsSpace(Head(s)) THEN LStrip(Tail(s)) ELSE s

RECURSIVE RStrip(_)
RStrip(s) ==
    IF s # <<>> /\ IsSpace(s[Len(s)])
    THEN RStrip(SubSeq(s, 1, Len(s) - 1))
    ELSE s

\* s.strip()
Strip(s) == RStrip(LStrip(s))

\* s[n:]
Drop(s, n) == SubSeq(s, n + 1, Len(s))

\* s[a:b] for 0 <= a
Slice(s, a, b) == SubSeq(s, a + 1, IF b < Len(s) THEN b ELSE Len(s))

\* s.startswith(p)
StartsWith(s, p) == Len(s) >= Len(p) /\ SubSeq(s, 1, Len(p)) = p

\* c in s, for a single character c
Contains(s, c) == \E i \in 1..Len(s) : s[i] = c

\* s.split(c), for a single character c
RECURSIVE Split(_, _)
Split(s, c) ==
    IF ~Contains(s, c) THEN <<s>>
    ELSE LET i == CHOOSE k \in 1..Len(s) :
                      s[k] = c /\ \A j \in 1..(k - 1) : s[j] # c
         IN  <<SubSeq(s, 1, i - 1)>> \o Split(Drop(s, i), c)

\* sep.join(parts)
RECURSIVE Join(_, _)
Join(parts, sep) ==
    IF parts = <<>> THEN <<>>
    ELSE IF Len(parts) = 1 THEN parts[1]
    ELSE parts[1] \o sep \o Join(Tail(parts), sep)

\* ''.join(parts)
Concat(parts) == Join(parts, <<>>)

\* s.replace(old, new), left to right, non-overlapping, old not empty
RECURSIVE Replace(_, _, _)
Replace(s, old, new) ==
    IF s = <<>> THEN <<>>
    ELSE IF StartsWith(s, old) THEN new \o Replace(Drop(s, Len(old)), old, new)
    ELSE <<Head(s)>> \o Replace(Tail(s), old, new)

\* s.splitlines(): '\n', '\r' and '\r\n' end a line; no empty last line
RECURSIVE Splitlines(_)
Splitlines(s) ==
    IF s = <<>> THEN <<>>
    ELSE IF \A k \in 1..Len(s) : s[k] \notin {"\n", "\r"} THEN <<s>>
    ELSE LET i == CHOOSE k \in 1..Len(s) :
                      /\ s[k] \in {"\n", "\r"}
                      /\ \A j \in 1..(k - 1) : s[j] \notin {"\n", "\r"}
             skip == IF s[i] = "\r" /\ i < Len(s) /\ s[i + 1] = "\n"
                     THEN i + 1 ELSE i
         IN  <<SubSeq(s, 1, i - 1)>> \o Splitlines(Drop(s, skip))

----------------------------------------------------------------------------
(* Exceptions *)

NoExc ==
    [type |-> "none", remain |-> None, message |-> "", line_number |-> None]

\* EndOfBlock(remain): remain is None or Some(line)
EndOfBlock(remain) ==
    [type |-> "EndOfBlock", remain |-> remain, message |-> "",
     line_number |-> None]

FunyuSyntaxError(message) ==
    [type |-> "FunyuSyntaxError", remain |-> None, message |-> message,
     line_number |-> None]

ValueError(message) ==
    [type |-> "ValueError", remain |-> None, message |-> message,
     line_number |-> None]

----------------------------------------------------------------------------
(* MetaData: a Block that is also a dict.  items is the dict in insertion  *)
(* order, a sequence of [key, value].                                      *)

MetaDataNew == [ended |-> FALSE, level |-> 1, items |-> <<>>]

HasKey(items, key) == \E i \in 1..Len(items) : items[i].key = key

\* self[key] = value: an existing key keeps its position
DictSet(items, key, value) ==
    IF HasKey(items, key)
    THEN [i \in 1..Len(items) |->
             IF items[i].key = key
             THEN [key |-> key, value |-> value] ELSE items[i]]
    ELSE Append(items, [key |-> key, value |-> value])

\* faulty variant: a line without ':' ends the block like a blank line
MetaDataFeedEndsOnText(self, line) ==
    IF self.ended THEN [self |-> self, exc |-> EndOfBlock(Some(line))]
    ELSE IF Strip(line) = <<>> \/ ~Contains(line, ":")
    THEN [self |-> [self EXCEPT !.ended = TRUE], exc |-> EndOfBlock(None)]
    ELSE LET items == Split(line, ":")
             key   == Strip(items[1])
             value == Strip(Join(Tail(items), <<":">>))
         IN  IF key = <<>>
             THEN [self |-> self, exc |-> FunyuSyntaxError("key is required.")]
             ELSE [self |-> [self EXCEPT !.items = DictSet(@, key, value)],
                   exc |-> NoExc]

\* faulty variant: the pair is stored before the key is checked
MetaDataFeedStoresFirst(self, line) ==
    IF self.ended THEN [self |-> self, exc |-> EndOfBlock(Some(line))]
    ELSE IF Strip(line) = <<>>
    THEN [self |-> [self EXCEPT !.ended = TRUE], exc |-> EndOfBlock(None)]
    ELSE IF ~Contains(line, ":")
    THEN [self |-> self,
          exc |-> FunyuSyntaxError(
              "metadata block expects key-value separated by semicolon.")]
    ELSE LET items == Split(line, ":")
             key   == Strip(items[1])
             value == Strip(Join(Tail(items), <<":">>))
         IN  [self |-> [self EXCEPT !.items = DictSet(@, key, value)],
              exc |-> IF key = <<>>
                      THEN FunyuSyntaxError("key is required.") ELSE NoExc]

\* faulty variant: the value is items[1] alone, cut at the second ':'
MetaDataFeedCutsValue(self, line) ==
    IF self.ended THEN [self |-> self, exc |-> EndOfBlock(Some(line))]
    ELSE IF Strip(line) = <<>>
    THEN [self |-> [self EXCEPT !.ended = TRUE], exc |-> EndOfBlock(None)]
    ELSE IF ~Contains(line, ":")
    THEN [self |-> self,
          exc |-> FunyuSyntaxError(
              "metadata block expects key-value separated by semicolon.")]
    ELSE LET items == Split(line, ":")
             key   == Strip(items[1])
             value == Strip(items[2])
         IN  IF key = <<>>
             THEN [self |-> self, exc |-> FunyuSyntaxError("key is required.")]
             ELSE [self |-> [self EXCEPT !.items = DictSet(@, key, value)],
                   exc |-> NoExc]

MetaDataFeed(self, line) ==
    IF self.ended THEN [self |-> self, exc |-> EndOfBlock(Some(line))]
    ELSE IF Strip(line) = <<>>
    THEN [self |-> [self EXCEPT !.ended = TRUE], exc |-> EndOfBlock(None)]
    ELSE IF ~Contains(line, ":")
    THEN [self |-> self,
          exc |-> FunyuSyntaxError(
              "metadata block expects key-value separated by semicolon.")]
    ELSE LET items == Split(line, ":")
             key   == Strip(items[1])
             value == Strip(Join(Tail(items), <<":">>))
         IN  IF key = <<>>
             THEN [self |-> self, exc |-> FunyuSyntaxError("key is required.")]
             ELSE [self |-> [self EXCEPT !.items = DictSet(@, key, value)],
                   exc |-> NoExc]

\* faulty variant: key and value are written without the ':' between them
MetaDataAsFunyuNoColon(self) ==
    Join([i \in 1..Len(self.items) |->
             self.items[i].key \o <<" ">> \o self.items[i].value],
         <<"\n">>) \o <<"\n">>

\* MetaData.as_funyu
MetaDataAsFunyu(self) ==
    Join([i \in 1..Len(self.items) |->
             self.items[i].key \o <<":", " ">> \o self.items[i].value],
         <<"\n">>) \o <<"\n">>

----------------------------------------------------------------------------
(* String: the inline elements of one line.  An inline element is a record *)
(* [kind, text, alt, uri, elements]; kind "str" is a literal run of text.  *)

Str(text) ==
    [kind |-> "str", text |-> text, alt |-> <<>>, uri |-> <<>>,
     elements |-> <<>>]

Span(kind, elements) ==
    [kind |-> kind, text |-> <<>>, alt |-> <<>>, uri |-> <<>>,
     elements |-> elements]

\* Code(text): String.__init__(self, '') leaves elements empty
Code(text) ==
    [kind |-> "Code", text |-> text, alt |-> <<>>, uri |-> <<>>,
     elements |-> <<>>]

Link(elements, uri) ==
    [kind |-> "Link", text |-> <<>>, alt |-> <<>>, uri |-> uri,
     elements |-> elements]

\* ImageLink(alt, uri): Link.__init__(self, '', uri) leaves elements empty
ImageLink(alt, uri) ==
    [kind |-> "ImageLink", text |-> <<>>, alt |-> alt, uri |-> uri,
     elements |-> <<>>]

OpenBrackets == {<<"[", "[">>, <<"<", "<">>, <<"{", "{">>}

CloseOf(key) ==
    IF key = <<"[", "[">> THEN <<"]", "]">>
    ELSE IF key = <<"<", "<">> THEN <<">", ">">>
    ELSE <<"}", "}">>

\* findClose's loop from index i with the level reached so far; -1 stands
\* for the FunyuSyntaxError raised when the loop runs out
RECURSIVE FindCloseFrom(_, _, _, _, _)
FindCloseFrom(string, start, end, i, level) ==
    IF i >= Len(string) THEN -1
    ELSE LET rest == Drop(string, i)
             lv   == IF StartsWith(rest, start) THEN level + 1
                     ELSE IF StartsWith(rest, end) THEN level - 1
                     ELSE level
         IN  IF lv = -1 THEN i
             ELSE FindCloseFrom(string, start, end, i + 1, lv)

findClose(string, start, end) == FindCloseFrom(string, start, end, 0, 0)

\* The regular expression String.link, matched at index s (0-based).
\* tstart is where linktext begins; greedy linktext ends at the last "]("
\* that still has a ")" after it, greedy linkuri at the last ")".
LinkCloses(string, tstart) ==
    {j \in tstart..(Len(string) - 3) :
        /\ string[j + 1] = "]"
        /\ string[j + 2] = "("
        /\ \E k \in (j + 2)..(Len(string) - 1) : string[k + 1] = ")"}

SetMax(S) == CHOOSE x \in S : \A y \in S : y <= x

SetMin(S) == CHOOSE x \in S : \A y \in S : x <= y

LinkMatchFrom(string, s, linktype, tstart) ==
    LET j == SetMax(LinkCloses(string, tstart))
        k == SetMax({x \in (j + 2)..(Len(string) - 1) : string[x + 1] = ")"})
    IN  [start |-> s, end |-> k + 1, linktype |-> linktype,
         linktext |-> Slice(string, tstart, j),
         linkuri |-> Slice(string, j + 2, k)]

IMG == <<"I", "M", "G", ":">>

\* does the pattern match at s, and how: "IMG:" is tried before ""
LinkMatchesAt(string, s) ==
    /\ s < Len(string)
    /\ string[s + 1] = "["
    /\ \/ StartsWith(Drop(string, s + 1), IMG)
          /\ LinkCloses(string, s + 5) # {}
       \/ LinkCloses(string, s + 1) # {}

LinkMatchAt(string, s) ==
    IF StartsWith(Drop(string, s + 1), IMG) /\ LinkCloses(string, s + 5) # {}
    THEN LinkMatchFrom(string, s, IMG, s + 5)
    ELSE LinkMatchFrom(string, s, <<>>, s + 1)

\* link.search(string[pos:]) is not None
LinkFound(string, pos) ==
    \E s \in pos..(Len(string) - 1) : LinkMatchesAt(string, s)

\* the leftmost match at or after pos
LinkSearch(string, pos) ==
    LinkMatchAt(string,
        SetMin({s \in pos..(Len(string) - 1) : LinkMatchesAt(string, s)}))

RECURSIVE StringInit(_), ProcStrLoop(_, _, _, _), LinkLoop(_, _, _)

InlineError == FunyuSyntaxError("inline element is required close bracket.")

\* Keyword(text), Emphasis(text): the element elm, or the exception of
\* String.__init__(text), whose result is sub
SpanFrom(kind, sub) == [elm |-> Span(kind, sub.elements), exc |-> sub.exc]

\* lines 731-739 of procStr: the element for the bracket key around inner
BracketSpan(key, inner) ==
    IF key = <<"[", "[">> THEN SpanFrom("Keyword", StringInit(inner))
    ELSE IF key = <<"<", "<">> THEN SpanFrom("Emphasis", StringInit(inner))
    ELSE [elm |-> Code(inner), exc |-> NoExc]

\* lines 741-742 of procStr: the element is appended and the loop goes on
\* at end + 2, then "i += 1"; elements holds the literal text before key
ProcStrClosed(string, elements, end, span) ==
    IF span.exc.type # "none"
    THEN [elements |-> elements, exc |-> span.exc]
    ELSE ProcStrLoop(string, end + 2 + 1, end + 2, Append(elements, span.elm))

\* lines 727-739 of procStr: key opens at index i and closes at the index
\* close of string[i + 2:], -1 when findClose raises
ProcStrOpen(string, i, last, elements, key, close) ==
    IF close = -1
    THEN [elements |-> Append(elements, Str(Slice(string, last, i))),
          exc |-> InlineError]
    ELSE ProcStrClosed(string, Append(elements, Str(Slice(string, last, i))),
                       i + 2 + close,
                       BracketSpan(key, Slice(string, i + 2, i + 2 + close)))

\* faulty variant: the text after the last span is not appended
ProcStrEndDropsRemain(remain, elements) ==
    [elements |-> elements, exc |-> NoExc]

\* lines 746-748 of procStr
ProcStrEnd(remain, elements) ==
    [elements |-> IF remain # <<>> THEN Append(elements, Str(remain))
                  ELSE elements,
     exc |-> NoExc]

\* procStr's while loop at index i, with last and the elements appended so far
ProcStrLoop(string, i, last, elements) ==
    IF i >= Len(string) THEN ProcStrEnd(Drop(string, last), elements)
    ELSE IF Slice(string, i, i + 2) \in OpenBrackets
    THEN ProcStrOpen(string, i, last, elements, Slice(string, i, i + 2),
                     findClose(Drop(string, i + 2), Slice(string, i, i + 2),
                               CloseOf(Slice(string, i, i + 2))))
    ELSE ProcStrLoop(string, i + 1, last, elements)

procStr(string) == ProcStrLoop(string, 0, 0, <<>>)

\* Link(text, uri): the element, or the exception of String.__init__(text)
LinkFrom(text, uri) == [elm |-> Link(text.elements, uri), exc |-> text.exc]

\* lines 757-768 of String.__init__: the element of a match
LinkOf(match) ==
    IF match.linktype = IMG
    THEN [elm |-> ImageLink(Strip(match.linktext), Strip(match.linkuri)),
          exc |-> NoExc]
    ELSE LinkFrom(StringInit(Strip(match.linktext)), Strip(match.linkuri))

\* line 765 and the next turn of the loop
LinkLoopAppend(string, elements, match, link) ==
    IF link.exc.type # "none"
    THEN [elements |-> elements, exc |-> link.exc]
    ELSE LinkLoop(string, match.end, Append(elements, link.elm))

\* faulty variant: the text of the match is not searched for a link
LinkLoopMatchNests(string, elements, match, r) ==
    IF r.exc.type # "none"
    THEN [elements |-> elements \o r.elements, exc |-> r.exc]
    ELSE LinkLoopAppend(string, elements \o r.elements, match, LinkOf(match))

\* lines 754-768: r is the result of procStr on the text before the match
LinkLoopMatch(string, elements, match, r) ==
    IF r.exc.type # "none"
    THEN [elements |-> elements \o r.elements, exc |-> r.exc]
    ELSE IF LinkFound(match.linktext, 0)
    THEN [elements |-> elements \o r.elements,
          exc |-> FunyuSyntaxError("link element can't including link.")]
    ELSE LinkLoopAppend(string, elements \o r.elements, match, LinkOf(match))

\* line 770: r is the result of procStr(string[done:])
LinkLoopEnd(elements, r) ==
    [elements |-> elements \o r.elements, exc |-> r.exc]

\* the text before the match found from done, then the match
LinkLoopFound(string, done, elements, match) ==
    LinkLoopMatch(string, elements, match,
                  procStr(Slice(string, done, match.start)))

\* "for match in self.link.finditer(string)" from index done, and the
\* procStr(string[done:]) after it
LinkLoop(string, done, elements) ==
    IF ~LinkFound(string, done)
    THEN LinkLoopEnd(elements, procStr(Drop(string, done)))
    ELSE LinkLoopFound(string, done, elements, LinkSearch(string, done))

\* String.__init__(string): the elements, or the exception it raises
StringInit(string) == LinkLoop(string, 0, <<>>)

\* String.as_funyu and the as_funyu of the String subclasses
RECURSIVE StringAsFunyu(_)
StringAsFunyu(elements) ==
    Concat([i \in 1..Len(elements) |->
        LET elm == elements[i]
        IN  CASE elm.kind = "str" -> elm.text
              [] elm.kind = "Keyword" ->
                    <<"[", "[">> \o StringAsFunyu(elm.elements) \o <<"]", "]">>
              [] elm.kind = "Emphasis" ->
                    <<"<", "<">> \o StringAsFunyu(elm.elements) \o <<">", ">">>
              [] elm.kind = "Code" ->
                    <<"{", "{">> \o elm.text \o <<"}", "}">>
              [] elm.kind = "Link" ->
                    <<"[">> \o StringAsFunyu(elm.elements) \o <<"]", "(">>
                        \o elm.uri \o <<")">>
              [] elm.kind = "ImageLink" ->
                    <<"[">> \o IMG \o <<" ">> \o elm.alt \o <<"]", "(">>
                        \o elm.uri \o <<")">>])

\* Line(line)
LineNew(elements) == [kind |-> "Line", elements |-> elements]

\* Line.as_funyu
LineAsFunyu(self) == StringAsFunyu(self.elements) \o <<"\n">>


----------------------------------------------------------------------------
(* datetime.datetime.strptime(text, '%Y-%m-%d').date() and date.isoformat  *)

Digits == {"0", "1", "2", "3", "4", "5", "6", "7", "8", "9"}

DigitVal(c) ==
    CASE c = "0" -> 0 [] c = "1" -> 1 [] c = "2" -> 2 [] c = "3" -> 3
      [] c = "4" -> 4 [] c = "5" -> 5 [] c = "6" -> 6 [] c = "7" -> 7
      [] c = "8" -> 8 [] c = "9" -> 9

DigitChar(n) ==
    CASE n = 0 -> "0" [] n = 1 -> "1" [] n = 2 -> "2" [] n = 3 -> "3"
      [] n = 4 -> "4" [] n = 5 -> "5" [] n = 6 -> "6" [] n = 7 -> "7"
      [] n = 8 -> "8" [] n = 9 -> "9"

NoDate == [year |-> 0, month |-> 0, day |-> 0]

\* %m is 1[0-2]|0[1-9]|[1-9]: the number of characters it takes at the
\* head of s, 0 when it does not match
MonthLen(s) ==
    IF Len(s) >= 2 /\ s[1] = "1" /\ s[2] \in {"0", "1", "2"} THEN 2
    ELSE IF Len(s) >= 2 /\ s[1] = "0" /\ s[2] \in Digits \ {"0"} THEN 2
    ELSE IF Len(s) >= 1 /\ s[1] \in Digits \ {"0"} THEN 1
    ELSE 0

\* %d is 3[01]|[12]\d|0[1-9]|[1-9]| [1-9]
DayLen(s) ==
    IF Len(s) >= 2 /\ s[1] = "3" /\ s[2] \in {"0", "1"} THEN 2
    ELSE IF Len(s) >= 2 /\ s[1] \in {"1", "2"} /\ s[2] \in Digits THEN 2
    ELSE IF Len(s) >= 2 /\ s[1] = "0" /\ s[2] \in Digits \ {"0"} THEN 2
    ELSE IF Len(s) >= 1 /\ s[1] \in Digits \ {"0"} THEN 1
    ELSE IF Len(s) >= 2 /\ s[1] = " " /\ s[2] \in Digits \ {"0"} THEN 2
    ELSE 0

\* the value of a run of digits (blanks count for nothing)
RECURSIVE Number(_)
Number(s) ==
    IF s = <<>> THEN 0
    ELSE IF s[Len(s)] = " " THEN Number(SubSeq(s, 1, Len(s) - 1))
    ELSE 10 * Number(SubSeq(s, 1, Len(s) - 1)) + DigitVal(s[Len(s)])

IsLeap(year) == year % 4 = 0 /\ (year % 100 # 0 \/ year % 400 = 0)

DaysInMonth(year, month) ==
    IF month = 2 THEN (IF IsLeap(year) THEN 29 ELSE 28)
    ELSE IF month \in {4, 6, 9, 11} THEN 30
    ELSE 31

\* [ok, date]: ok is FALSE where strptime or date() raises ValueError
strptime(text) ==
    LET yearOk == /\ Len(text) >= 5
                  /\ \A i \in 1..4 : text[i] \in Digits
                  /\ text[5] = "-"
        afterY == Drop(text, 5)
        mlen   == MonthLen(afterY)
        monthOk == mlen > 0 /\ Len(afterY) > mlen /\ afterY[mlen + 1] = "-"
        afterM == Drop(afterY, mlen + 1)
        dlen   == DayLen(afterM)
        year   == Number(SubSeq(text, 1, 4))
        month  == Number(SubSeq(afterY, 1, mlen))
        day    == Number(SubSeq(afterM, 1, dlen))
    IN  IF /\ yearOk
           /\ monthOk
           /\ dlen > 0
           /\ dlen = Len(afterM)
           /\ year >= 1
           /\ day <= DaysInMonth(year, month)
        THEN [ok |-> TRUE, date |-> [year |-> year, month |-> month, day |-> day]]
        ELSE [ok |-> FALSE, date |-> NoDate]

TwoDigits(n) == <<DigitChar(n \div 10), DigitChar(n % 10)>>

\* date.isoformat()
isoformat(date) ==
    <<DigitChar(date.year \div 1000), DigitChar((date.year \div 100) % 10),
      DigitChar((date.year \div 10) % 10), DigitChar(date.year % 10)>>
    \o <<"-">> \o TwoDigits(date.month) \o <<"-">> \o TwoDigits(date.day)

----------------------------------------------------------------------------
(* Blocks.  A block is a record [kind, level, ended, title, type, date,    *)
(* elements]; an attribute a kind does not have keeps its empty value.     *)
(* elements holds blocks (Section, PostScript), Lines (Paragraph) or       *)
(* strings (CodeBlock, EmbeddedHTML).                                      *)

BlockNew(kind, level) ==
    [kind |-> kind, level |-> level, ended |-> FALSE, title |-> <<>>,
     type |-> None, date |-> NoDate, elements |-> <<>>]

ParagraphNew == BlockNew("Paragraph", 1)

SectionNew(level, title) == [BlockNew("Section", level) EXCEPT !.title = title]

PostScriptNew(level, date) ==
    [BlockNew("PostScript", level) EXCEPT !.date = date]

\* CodeBlock(type): type is None or Some(name)
CodeBlockNew(type) == [BlockNew("CodeBlock", 1) EXCEPT !.type = type]

EmbeddedHTMLNew == BlockNew("EmbeddedHTML", 1)

SectionMark == <<"-", "-", " ">>

\* the grave accent character (U+0060), which a TLA+ string cannot hold
Grave == "grave"

CodeMark == <<Grave, Grave, Grave>>

PostScriptMark == <<"p", ".", "s", ".", " ">>

HtmlOpen == <<"(", "(", "(">>

HtmlClose == <<")", ")", ")">>

RECURSIVE BlockFeed(_, _), ElementFeed(_, _), SectionFeed(_, _), Dispatch(_, _)

\* faulty variant: ended follows the line, so a later text line reopens
ParagraphFeedReopens(self, line) ==
    IF Strip(line) = <<>> \/ self.ended
    THEN [self |-> [self EXCEPT !.ended = (Strip(line) = <<>>)],
          exc |-> EndOfBlock(Some(line))]
    ELSE LET string == StringInit(line)
         IN  IF string.exc.type # "none"
             THEN [self |-> self, exc |-> string.exc]
             ELSE [self |-> [self EXCEPT
                       !.elements = Append(@, LineNew(string.elements))],
                   exc |-> NoExc]

\* line 378 of Paragraph.feed: string is the result of String.__init__(line)
ParagraphAppend(self, string) ==
    IF string.exc.type # "none"
    THEN [self |-> self, exc |-> string.exc]
    ELSE [self |-> [self EXCEPT !.elements = Append(@, LineNew(string.elements))],
          exc |-> NoExc]

\* faulty variant: only a blank line is signalled back, so an ended
\* Paragraph takes the next text line
ParagraphFeedAppendsAfterEnd(self, line) ==
    IF Strip(line) = <<>>
    THEN [self |-> [self EXCEPT !.ended = TRUE], exc |-> EndOfBlock(Some(line))]
    ELSE ParagraphAppend(self, StringInit(line))

\* Paragraph.feed
ParagraphFeed(self, line) ==
    IF Strip(line) = <<>> \/ self.ended
    THEN [self |-> [self EXCEPT !.ended = TRUE], exc |-> EndOfBlock(Some(line))]
    ELSE ParagraphAppend(self, StringInit(line))

\* faulty variant: an ended block still takes the lines it would take open
SectionFeedForgetsEnded(self, line) ==
    IF Strip(line) # <<>> /\ ~StartsWith(line, <<"\t">>)
    THEN [self |-> [self EXCEPT !.ended = TRUE], exc |-> EndOfBlock(Some(line))]
    ELSE BlockFeed(self, Drop(line, 1))

\* faulty variant: the line goes to Block.feed with its first tab
SectionFeedKeepsTab(self, line) ==
    IF (Strip(line) # <<>> /\ ~StartsWith(line, <<"\t">>)) \/ self.ended
    THEN [self |-> [self EXCEPT !.ended = TRUE], exc |-> EndOfBlock(Some(line))]
    ELSE BlockFeed(self, line)

\* Section.feed and PostScript.feed (the same code)
SectionFeed(self, line) ==
    IF (Strip(line) # <<>> /\ ~StartsWith(line, <<"\t">>)) \/ self.ended
    THEN [self |-> [self EXCEPT !.ended = TRUE], exc |-> EndOfBlock(Some(line))]
    ELSE BlockFeed(self, Drop(line, 1))

\* faulty variant: '&' is replaced last, so it escapes the entities of
\* '<' and '>' a second time
EscapeAmpLast(line) ==
    Replace(Replace(Replace(line, <<"<">>, <<"&", "l", "t", ";">>),
                    <<">">>, <<"&", "g", "t", ";">>),
            <<"&">>, <<"&", "a", "m", "p", ";">>)

\* the three replace calls of CodeBlock.feed, in their order
Escape(line) ==
    Replace(Replace(Replace(line, <<"&">>, <<"&", "a", "m", "p", ";">>),
                    <<"<">>, <<"&", "l", "t", ";">>),
            <<">">>, <<"&", "g", "t", ";">>)

\* faulty variant: the line that is refused ends the block
CodeBlockFeedEndsOnError(self, line) ==
    IF self.ended THEN [self |-> self, exc |-> EndOfBlock(Some(line))]
    ELSE IF line = CodeMark
    THEN [self |-> [self EXCEPT !.ended = TRUE], exc |-> EndOfBlock(None)]
    ELSE IF line # <<>> /\ ~StartsWith(line, <<"\t">>)
    THEN [self |-> [self EXCEPT !.ended = TRUE],
          exc |-> FunyuSyntaxError(
              "in code block, lines should be starts with tab character.")]
    ELSE [self |-> [self EXCEPT !.elements = Append(@, Escape(Drop(line, 1)))],
          exc |-> NoExc]

\* CodeBlock.feed
CodeBlockFeed(self, line) ==
    IF self.ended THEN [self |-> self, exc |-> EndOfBlock(Some(line))]
    ELSE IF line = CodeMark
    THEN [self |-> [self EXCEPT !.ended = TRUE], exc |-> EndOfBlock(None)]
    ELSE IF line # <<>> /\ ~StartsWith(line, <<"\t">>)
    THEN [self |-> self,
          exc |-> FunyuSyntaxError(
              "in code block, lines should be starts with tab character.")]
    ELSE [self |-> [self EXCEPT !.elements = Append(@, Escape(Drop(line, 1)))],
          exc |-> NoExc]

\* faulty variant: the line is escaped as the line of a code block is
EmbeddedHTMLFeedEscapes(self, line) ==
    IF self.ended THEN [self |-> self, exc |-> EndOfBlock(Some(line))]
    ELSE IF StartsWith(line, HtmlClose)
    THEN [self |-> [self EXCEPT !.ended = TRUE], exc |-> EndOfBlock(None)]
    ELSE IF line # <<>> /\ ~StartsWith(line, <<"\t">>)
    THEN [self |-> self,
          exc |-> FunyuSyntaxError(
              "in embedded html, lines should be starts with tab character.")]
    ELSE [self |-> [self EXCEPT !.elements = Append(@, Escape(Drop(line, 1)))],
          exc |-> NoExc]

\* EmbeddedHTML.feed
EmbeddedHTMLFeed(self, line) ==
    IF self.ended THEN [self |-> self, exc |-> EndOfBlock(Some(line))]
    ELSE IF StartsWith(line, HtmlClose)
    THEN [self |-> [self EXCEPT !.ended = TRUE], exc |-> EndOfBlock(None)]
    ELSE IF line # <<>> /\ ~StartsWith(line, <<"\t">>)
    THEN [self |-> self,
          exc |-> FunyuSyntaxError(
              "in embedded html, lines should be starts with tab character.")]
    ELSE [self |-> [self EXCEPT !.elements = Append(@, Drop(line, 1))],
          exc |-> NoExc]

\* elm.feed(line): the feed of the class of elm
ElementFeed(elm, line) ==
    CASE elm.kind = "Paragraph" -> ParagraphFeed(elm, line)
      [] elm.kind \in {"Section", "PostScript"} -> SectionFeed(elm, line)
      [] elm.kind = "CodeBlock" -> CodeBlockFeed(elm, line)
      [] elm.kind = "EmbeddedHTML" -> EmbeddedHTMLFeed(elm, line)

\* faulty variant: the element is written to the first place
SetLastFirst(self, elm) == [self EXCEPT !.elements[1] = elm]

\* self.elements[-1] = elm
SetLast(self, elm) == [self EXCEPT !.elements[Len(self.elements)] = elm]

\* self.elements.append(elm)
AppendElement(self, elm) == [self EXCEPT !.elements = Append(@, elm)]

\* lines 207-208 of Block.feed: para is the result of feeding the line to
\* the new Paragraph, which is appended before it is fed
AppendFed(self, para) ==
    [self |-> AppendElement(self, para.self), exc |-> para.exc]

\* faulty variant: a blank line gets a Paragraph too
NewParagraphOfBlank(self, line) ==
    AppendFed(self, ParagraphFeed(ParagraphNew, line))

\* lines 206-208 of Block.feed
NewParagraph(self, line) ==
    IF Strip(line) # <<>>
    THEN AppendFed(self, ParagraphFeed(ParagraphNew, line))
    ELSE [self |-> self, exc |-> NoExc]

\* lines 199-208 of Block.feed: again is the result of feeding the line to
\* the last element
Continue(self, line, again) ==
    IF again.exc.type # "EndOfBlock"
    THEN [self |-> SetLast(self, again.self), exc |-> again.exc]
    ELSE NewParagraph(SetLast(self, again.self), line)

\* lines 190-195 of Block.feed: parsed is the result of strptime
PostScriptTrigger(self, parsed) ==
    IF ~parsed.ok
    THEN [self |-> self, exc |-> ValueError("time data does not match format")]
    ELSE [self |-> AppendElement(self, PostScriptNew(self.level + 1, parsed.date)),
          exc |-> NoExc]

\* line 188 of Block.feed: "type or None"
OrNone(type) == IF type = <<>> THEN None ELSE Some(type)

\* faulty variant: an open Paragraph takes the line before the triggers are
\* tried
DispatchParagraphFirst(self, line) ==
    IF /\ Len(self.elements) > 0
       /\ self.elements[Len(self.elements)].kind = "Paragraph"
       /\ ~self.elements[Len(self.elements)].ended
       /\ Strip(line) # <<>>
    THEN Continue(self, line,
                  ElementFeed(self.elements[Len(self.elements)], line))
    ELSE IF StartsWith(line, SectionMark)
    THEN [self |-> AppendElement(self,
                       SectionNew(self.level + 1, Strip(Drop(line, 3)))),
          exc |-> NoExc]
    ELSE IF StartsWith(line, CodeMark)
    THEN [self |-> AppendElement(self,
                       CodeBlockNew(OrNone(Strip(Drop(line, 4))))),
          exc |-> NoExc]
    ELSE IF StartsWith(line, PostScriptMark)
    THEN PostScriptTrigger(self, strptime(Strip(Drop(line, 5))))
    ELSE IF Strip(line) = HtmlOpen
    THEN [self |-> AppendElement(self, EmbeddedHTMLNew), exc |-> NoExc]
    ELSE IF Len(self.elements) = 0
    THEN NewParagraph(self, line)
    ELSE Continue(self, line,
                  ElementFeed(self.elements[Len(self.elements)], line))

\* lines 185-208 of Block.feed: the triggers, then the paragraph
Dispatch(self, line) ==
    IF StartsWith(line, SectionMark)
    THEN [self |-> AppendElement(self,
                       SectionNew(self.level + 1, Strip(Drop(line, 3)))),
          exc |-> NoExc]
    ELSE IF StartsWith(line, CodeMark)
    THEN [self |-> AppendElement(self,
                       CodeBlockNew(OrNone(Strip(Drop(line, 4))))),
          exc |-> NoExc]
    ELSE IF StartsWith(line, PostScriptMark)
    THEN PostScriptTrigger(self, strptime(Strip(Drop(line, 5))))
    ELSE IF Strip(line) = HtmlOpen
    THEN [self |-> AppendElement(self, EmbeddedHTMLNew), exc |-> NoExc]
    ELSE IF Len(self.elements) = 0
    THEN NewParagraph(self, line)
    ELSE Continue(self, line,
                  ElementFeed(self.elements[Len(self.elements)], line))

\* faulty variant: a line signalled back by the last element is not
\* evaluated again
FirstFedDropsRemain(self, line, r) ==
    IF r.exc.type = "EndOfBlock"
    THEN [self |-> SetLast(self, r.self), exc |-> NoExc]
    ELSE [self |-> SetLast(self, r.self), exc |-> r.exc]

\* lines 179-183 of Block.feed: r is the result of feeding the line to the
\* last element, which is not a Paragraph
FirstFed(self, line, r) ==
    IF r.exc.type = "EndOfBlock"
    THEN IF r.exc.remain = None
         THEN [self |-> SetLast(self, r.self), exc |-> NoExc]
         ELSE Dispatch(SetLast(self, r.self), line)
    ELSE [self |-> SetLast(self, r.self), exc |-> r.exc]

\* Block.feed
BlockFeed(self, line) ==
    IF /\ Len(self.elements) > 0
       /\ self.elements[Len(self.elements)].kind # "Paragraph"
    THEN FirstFed(self, line,
                  ElementFeed(self.elements[Len(self.elements)], line))
    ELSE Dispatch(self, line)

----------------------------------------------------------------------------
(* Funyu: the document *)

\* Funyu(initial_level)
FunyuNew(initial_level) ==
    [level |-> initial_level - 1, ended |-> FALSE, elements |-> <<>>,
     metadata |-> MetaDataNew, line_number |-> 0]

\* faulty variant: the EndOfBlock of the metadata block is not caught
FunyuRouteNoCatch(self, line) ==
    IF self.metadata.ended
    THEN BlockFeed(self, line)
    ELSE LET r == MetaDataFeed(self.metadata, line)
         IN  [self |-> [self EXCEPT !.metadata = r.self], exc |-> r.exc]

\* faulty variant: a line with ':' goes to the metadata block at any time
FunyuRouteByColon(self, line) ==
    IF self.metadata.ended /\ ~Contains(line, ":")
    THEN BlockFeed(self, line)
    ELSE LET r == MetaDataFeed(self.metadata, line)
         IN  [self |-> [self EXCEPT !.metadata = r.self],
              exc |-> IF r.exc.type = "EndOfBlock" THEN NoExc ELSE r.exc]

\* lines 260-263 of Funyu.feed: r is the result of metadata.feed(line)
MetaDataFed(self, r) ==
    [self |-> [self EXCEPT !.metadata = r.self],
     exc |-> IF r.exc.type = "EndOfBlock" THEN NoExc ELSE r.exc]

\* lines 256-263 of Funyu.feed: the metadata block first, then Block.feed
FunyuRoute(self, line) ==
    IF self.metadata.ended
    THEN BlockFeed(self, line)
    ELSE MetaDataFed(self, MetaDataFeed(self.metadata, line))

\* lines 264-267 of Funyu.feed: a FunyuSyntaxError gets the line number
Annotate(r) ==
    IF r.exc.type = "FunyuSyntaxError"
    THEN [self |-> r.self,
          exc |-> [r.exc EXCEPT !.line_number = Some(r.self.line_number)]]
    ELSE r

\* faulty variant: the line break is looked for after the line was routed
FunyuFeedChecksLate(self, line) ==
    LET counted == [self EXCEPT !.line_number = @ + 1]
        r       == FunyuRoute(counted, line)
    IN  IF r.exc.type = "FunyuSyntaxError"
        THEN [self |-> r.self,
              exc |-> [r.exc EXCEPT !.line_number = Some(counted.line_number)]]
        ELSE IF Contains(line, "\n")
        THEN [self |-> r.self,
              exc |-> ValueError("line argument can't include line break.")]
        ELSE r

\* faulty variant: a line refused for its line break is not counted
FunyuFeedCountsLate(self, line) ==
    LET counted == [self EXCEPT !.line_number = @ + 1]
    IN  IF Contains(line, "\n")
        THEN [self |-> self,
              exc |-> ValueError("line argument can't include line break.")]
        ELSE LET r == FunyuRoute(counted, line)
             IN  IF r.exc.type = "FunyuSyntaxError"
                 THEN [self |-> r.self,
                       exc |-> [r.exc EXCEPT
                                   !.line_number = Some(counted.line_number)]]
                 ELSE r

\* Funyu.feed
FunyuFeed(self, line) ==
    IF Contains(line, "\n")
    THEN [self |-> [self EXCEPT !.line_number = @ + 1],
          exc |-> ValueError("line argument can't include line break.")]
    ELSE Annotate(FunyuRoute([self EXCEPT !.line_number = @ + 1], line))

----------------------------------------------------------------------------
(* as_funyu: the document written back as markup *)

\* indent(string)
indent(string) ==
    LET lines == Split(string, "\n")
    IN  Join([i \in 1..Len(lines) |->
                 IF lines[i] # <<>> THEN <<"\t">> \o lines[i] ELSE <<>>],
             <<"\n">>)

RECURSIVE BlockAsFunyu(_)

\* ''.join(elm.as_funyu() for elm in self.elements)
ElementsAsFunyu(elements) ==
    Concat([i \in 1..Len(elements) |-> BlockAsFunyu(elements[i])])

\* the as_funyu of Paragraph, Section, PostScript, CodeBlock, EmbeddedHTML
BlockAsFunyu(self) ==
    CASE self.kind = "Paragraph" ->
            Concat([i \in 1..Len(self.elements) |-> LineAsFunyu(self.elements[i])])
      [] self.kind = "Section" ->
            Replace(SectionMark \o self.title \o <<"\n">>
                        \o indent(ElementsAsFunyu(self.elements)),
                    <<"\n", "\t", "\n">>, <<"\n", "\n">>)
      [] self.kind = "PostScript" ->
            PostScriptMark \o isoformat(self.date) \o <<"\n">>
                \o indent(ElementsAsFunyu(self.elements))
      [] self.kind = "CodeBlock" ->
            CodeMark \o (IF self.type # None THEN <<" ">> \o self.type[1] ELSE <<>>)
                \o <<"\n">> \o indent(Join(self.elements, <<"\n">>))
                \o <<"\n">> \o CodeMark \o <<"\n">>
      [] self.kind = "EmbeddedHTML" ->
            HtmlOpen \o <<"\n">> \o indent(Join(self.elements, <<"\n">>))
                \o <<"\n">> \o HtmlClose \o <<"\n">>

\* Funyu.as_funyu
FunyuAsFunyu(self) ==
    MetaDataAsFunyu(self.metadata) \o <<"\n">> \o ElementsAsFunyu(self.elements)


----------------------------------------------------------------------------
(* as_html: the document written as HTML *)

\* the literal texts of the as_html methods
TargetBlank == <<" ", "t", "a", "r", "g", "e", "t", "=", "\"", "_", "b", "l",
    "a", "n", "k", "\"">>

StrongOpen == <<"<", "s", "t", "r", "o", "n", "g", ">">>

StrongClose == <<"<", "/", "s", "t", "r", "o", "n", "g", ">">>

EmOpen == <<"<", "e", "m", ">">>

EmClose == <<"<", "/", "e", "m", ">">>

CodeOpen == <<"<", "c", "o", "d", "e", ">">>

CodeClose == <<"<", "/", "c", "o", "d", "e", ">">>

AnchorOpen == <<"<", "a", " ", "h", "r", "e", "f", "=", "\"">>

AnchorClose == <<"<", "/", "a", ">">>

ImgOpen == <<"<", "i", "m", "g", " ", "s", "r", "c", "=", "\"">>

ImgAlt == <<"\"", " ", "a", "l", "t", "=", "\"">>

LineBreak == <<"<", "b", "r", ">", "\n">>

ParagraphOpen == <<"<", "p", ">", "\n">>

ParagraphClose == <<"<", "/", "p", ">", "\n">>

SectionOpen == <<"<", "s", "e", "c", "t", "i", "o", "n", ">", "\n", "<", "h">>

HeadingClose == <<"<", "/", "h">>

SectionClose == <<"<", "/", "s", "e", "c", "t", "i", "o", "n", ">", "\n">>

InsOpen == <<"<", "i", "n", "s", ">", "\n", "<", "b", ">", "p", ".", "s",
    ".", " ", "<", "d", "a", "t", "e", ">">>

InsDate == <<"<", "/", "d", "a", "t", "e", ">", "<", "/", "b", ">", "<", "b",
    "r", ">", "\n">>

InsClose == <<"<", "/", "i", "n", "s", ">", "\n">>

PreOpen == <<"<", "p", "r", "e", " ", "c", "l", "a", "s", "s", "=", "\"",
    "c", "o", "d", "e">>

PreClass == <<" ", "c", "o", "d", "e", "_">>

PreClose == <<"\n", "<", "/", "p", "r", "e", ">", "\n">>

Letters ==
    {"a", "b", "c", "d", "e", "f", "g", "h", "i", "j", "k", "l", "m", "n",
     "o", "p", "q", "r", "s", "t", "u", "v", "w", "x", "y", "z",
     "A", "B", "C", "D", "E", "F", "G", "H", "I", "J", "K", "L", "M", "N",
     "O", "P", "Q", "R", "S", "T", "U", "V", "W", "X", "Y", "Z"}

\* the characters urlparse takes in a scheme
SchemeChars == Letters \cup Digits \cup {"+", "-", "."}

\* the index of the first ":" of a text, 0 when it has none
FindColon(url) ==
    IF Contains(url, ":")
    THEN SetMin({i \in 1..Len(url) : url[i] = ":"})
    ELSE 0

\* urlparse.urlparse(uri).scheme is not empty: after the removal of tabs
\* and line breaks, the text before the first ":" starts with a letter and
\* holds scheme characters only
HasScheme(uri) ==
    LET url == SelectSeq(uri, LAMBDA c : c \notin {"\t", "\r", "\n"})
        i == FindColon(url)
    IN  /\ i > 1
        /\ url[1] \in Letters
        /\ \A j \in 1..(i - 1) : url[j] \in SchemeChars

\* the target attribute Link.as_html and ImageLink.as_html write for a uri
\* with a scheme
Target(uri) == IF HasScheme(uri) THEN TargetBlank ELSE <<>>

\* String.as_html and the as_html of the String subclasses
RECURSIVE StringAsHtml(_)
StringAsHtml(elements) ==
    Concat([i \in 1..Len(elements) |->
        LET elm == elements[i]
        IN  CASE elm.kind = "str" -> elm.text
              [] elm.kind = "Keyword" ->
                    StrongOpen \o StringAsHtml(elm.elements) \o StrongClose
              [] elm.kind = "Emphasis" ->
                    EmOpen \o StringAsHtml(elm.elements) \o EmClose
              [] elm.kind = "Code" ->
                    CodeOpen \o elm.text \o CodeClose
              [] elm.kind = "Link" ->
                    AnchorOpen \o elm.uri \o <<"\"">> \o Target(elm.uri)
                        \o <<">">> \o StringAsHtml(elm.elements)
                        \o AnchorClose
              [] elm.kind = "ImageLink" ->
                    AnchorOpen \o elm.uri \o <<"\"">> \o Target(elm.uri)
                        \o <<">">> \o ImgOpen \o elm.uri \o ImgAlt \o elm.alt
                        \o <<"\"", ">">> \o AnchorClose])

\* Line.as_html
LineAsHtml(self) == StringAsHtml(self.elements) \o LineBreak

\* str(n) of a natural number
RECURSIVE Decimal(_)
Decimal(n) ==
    IF n < 10 THEN <<DigitChar(n)>>
    ELSE Decimal(n \div 10) \o <<DigitChar(n % 10)>>

\* faulty variant: the level is written as it is
HeadingNumberUnbounded(self) == self.level

\* the heading number of Section.as_html: min(self.level, 6)
HeadingNumber(self) == IF self.level < 6 THEN self.level ELSE 6

\* the class name CodeBlock.as_html adds for the type
CodeClass(self) == IF self.type # None THEN PreClass \o self.type[1] ELSE <<>>

\* '\n'.join(self.elements) of CodeBlock.as_html and EmbeddedHTML.as_html
Content(self) == Join(self.elements, <<"\n">>)

RECURSIVE BlockAsHtml(_)

\* ''.join(elm.as_html() for elm in self.elements)
ElementsAsHtml(elements) ==
    Concat([i \in 1..Len(elements) |-> BlockAsHtml(elements[i])])

\* the as_html of Paragraph, Section, PostScript, CodeBlock, EmbeddedHTML
BlockAsHtml(self) ==
    CASE self.kind = "Paragraph" ->
            ParagraphOpen
                \o Concat([i \in 1..Len(self.elements) |->
                              LineAsHtml(self.elements[i])])
                \o ParagraphClose
      [] self.kind = "Section" ->
            SectionOpen \o Decimal(HeadingNumber(self)) \o <<">">>
                \o self.title
                \o HeadingClose \o Decimal(HeadingNumber(self)) \o <<">", "\n">>
                \o ElementsAsHtml(self.elements) \o SectionClose
      [] self.kind = "PostScript" ->
            InsOpen \o isoformat(self.date) \o InsDate
                \o ElementsAsHtml(self.elements) \o InsClose
      [] self.kind = "CodeBlock" ->
            PreOpen \o CodeClass(self) \o <<"\"", ">", "\n">>
                \o Content(self) \o PreClose
      [] self.kind = "EmbeddedHTML" -> Content(self) \o <<"\n">>

\* Funyu.as_html
FunyuAsHtml(self) == ElementsAsHtml(self.elements)

\* "for line in string.splitlines()" of Funyu.parse
ParseLines(string) == Splitlines(string)

\* the loop of Funyu.parse over lines: the first exception leaves it
RECURSIVE FeedEach(_, _)
FeedEach(self, lines) ==
    IF lines = <<>> THEN [self |-> self, exc |-> NoExc]
    ELSE LET r == FunyuFeed(self, Head(lines))
         IN  IF r.exc.type # "none" THEN r ELSE FeedEach(r.self, Tail(lines))

\* Funyu.parse
FunyuParse(self, string) == FeedEach(self, ParseLines(string))

----------------------------------------------------------------------------
(* Hunyu: the second implementation (src/hunyu.py).  Its objects are the   *)
(* records of the Funyu model; its document has no line_number.            *)

\* HunyuSyntaxError(message)
HunyuSyntaxError(message) ==
    [type |-> "HunyuSyntaxError", remain |-> None, message |-> message,
     line_number |-> None]

\* the indexes from an index on at which a close delimiter stands
BracketCloses(string, close, from) ==
    {j \in from..(Len(string) - 2) : Slice(string, j, j + 2) = close}

\* does splitter match at s: one of its first three alternatives, an open
\* delimiter at s and its close delimiter somewhere after it, or its fourth,
\* the pattern of a link
SplitterMatchesAt(string, s) ==
    \/ \E key \in OpenBrackets :
          /\ Slice(string, s, s + 2) = key
          /\ BracketCloses(string, CloseOf(key), s + 2) # {}
    \/ LinkMatchesAt(string, s)

\* the match of splitter at s: the alternatives are tried in their order;
\* '.*' is greedy, so the group of a bracket alternative runs to the last
\* close delimiter of the string
SplitterMatchAt(string, s) ==
    IF \E key \in OpenBrackets :
          /\ Slice(string, s, s + 2) = key
          /\ BracketCloses(string, CloseOf(key), s + 2) # {}
    THEN LET key   == Slice(string, s, s + 2)
             close == SetMax(BracketCloses(string, CloseOf(key), s + 2))
         IN  [start |-> s,
              end |-> close + 2,
              group |-> IF key = <<"[", "[">> THEN "keyword"
                        ELSE IF key = <<"<", "<">> THEN "emphasis"
                        ELSE "code",
              text |-> Slice(string, s + 2, close),
              linktype |-> <<>>, linktext |-> <<>>, linkuri |-> <<>>]
    ELSE [start |-> s,
          end |-> LinkMatchAt(string, s).end,
          group |-> "linktype",
          text |-> <<>>,
          linktype |-> LinkMatchAt(string, s).linktype,
          linktext |-> LinkMatchAt(string, s).linktext,
          linkuri |-> LinkMatchAt(string, s).linkuri]

RECURSIVE HunyuStringInit(_), HunyuSplit(_, _, _), HunyuElementOf(_)

\* lines 670-685 of String.__init__: the element of a match; Code and
\* ImageLink call String.__init__(self, ''), which leaves elements = ['']
HunyuElementOf(match) ==
    CASE match.group = "keyword" -> Span("Keyword", HunyuStringInit(match.text))
      [] match.group = "emphasis" ->
            Span("Emphasis", HunyuStringInit(match.text))
      [] match.group = "code" ->
            [Code(match.text) EXCEPT !.elements = <<Str(<<>>)>>]
      [] match.group = "linktype" ->
            IF match.linktype = IMG
            THEN [ImageLink(Strip(match.linktext), Strip(match.linkuri))
                     EXCEPT !.elements = <<Str(<<>>)>>]
            ELSE Link(HunyuStringInit(Strip(match.linktext)),
                      Strip(match.linkuri))

\* lines 666-687 of String.__init__: the loop over splitter.finditer(string)
\* from the index done, and the text after the last match
HunyuSplit(string, done, elements) ==
    IF \E s \in done..(Len(string) - 1) : SplitterMatchesAt(string, s)
    THEN LET match == SplitterMatchAt(string,
                          SetMin({s \in done..(Len(string) - 1) :
                                     SplitterMatchesAt(string, s)}))
         IN  HunyuSplit(string, match.end,
                        elements \o <<Str(Slice(string, done, match.start)),
                                      HunyuElementOf(match)>>)
    ELSE Append(elements, Str(Slice(string, done, Len(string))))

\* String.__init__(string) of hunyu: the elements
HunyuStringInit(string) == HunyuSplit(string, 0, <<>>)

\* String.as_hunyu and the as_hunyu of the String subclasses
RECURSIVE HunyuStringAsHunyu(_)
HunyuStringAsHunyu(elements) ==
    Concat([i \in 1..Len(elements) |->
        LET elm == elements[i]
        IN  CASE elm.kind = "str" -> elm.text
              [] elm.kind = "Keyword" ->
                    <<"[", "[">> \o HunyuStringAsHunyu(elm.elements)
                        \o <<"]", "]">>
              [] elm.kind = "Emphasis" ->
                    <<"<", "<">> \o HunyuStringAsHunyu(elm.elements)
                        \o <<">", ">">>
              [] elm.kind = "Code" -> <<"{", "{">> \o elm.text \o <<"}", "}">>
              [] elm.kind = "Link" ->
                    <<"[">> \o HunyuStringAsHunyu(elm.elements)
                        \o <<"]", "(">> \o elm.uri \o <<")">>
              [] elm.kind = "ImageLink" ->
                    <<"[">> \o IMG \o <<" ">> \o elm.alt \o <<"]", "(">>
                        \o elm.uri \o <<")">>])

\* String.as_html and the as_html of the String subclasses of hunyu:
\* Link.as_html writes its text with as_hunyu
RECURSIVE HunyuStringAsHtml(_)
HunyuStringAsHtml(elements) ==
    Concat([i \in 1..Len(elements) |->
        LET elm == elements[i]
        IN  CASE elm.kind = "str" -> elm.text
              [] elm.kind = "Keyword" ->
                    StrongOpen \o HunyuStringAsHtml(elm.elements)
                        \o StrongClose
              [] elm.kind = "Emphasis" ->
                    EmOpen \o HunyuStringAsHtml(elm.elements) \o EmClose
              [] elm.kind = "Code" ->
                    CodeOpen \o elm.text \o CodeClose
              [] elm.kind = "Link" ->
                    AnchorOpen \o elm.uri \o <<"\"">> \o Target(elm.uri)
                        \o <<">">> \o HunyuStringAsHunyu(elm.elements)
                        \o AnchorClose
              [] elm.kind = "ImageLink" ->
                    AnchorOpen \o elm.uri \o <<"\"">> \o Target(elm.uri)
                        \o <<">">> \o ImgOpen \o elm.uri \o ImgAlt \o elm.alt
                        \o <<"\"", ">">> \o AnchorClose])

\* MetaData.feed of hunyu
HunyuMetaDataFeed(self, line) ==
    IF self.ended THEN [self |-> self, exc |-> EndOfBlock(Some(line))]
    ELSE IF Strip(line) = <<>>
    THEN [self |-> [self EXCEPT !.ended = TRUE], exc |-> EndOfBlock(None)]
    ELSE IF ~Contains(line, ":")
    THEN [self |-> self,
          exc |-> HunyuSyntaxError(
              "metadata block expects key-value separated by semicolon.")]
    ELSE LET items == Split(line, ":")
             key   == Strip(items[1])
             value == Strip(Join(Tail(items), <<":">>))
         IN  IF key = <<>>
             THEN [self |-> self, exc |-> HunyuSyntaxError("key is required.")]
             ELSE [self |-> [self EXCEPT !.items = DictSet(@, key, value)],
                   exc |-> NoExc]

RECURSIVE HunyuBlockFeed(_, _), HunyuElementFeed(_, _), HunyuSectionFeed(_, _),
          HunyuDispatch(_, _)

\* faulty variant: a line of text opens no Paragraph and is lost
HunyuParagraphFeedDropsLine(self, line) ==
    IF Strip(line) = <<>> \/ self.ended
    THEN [self |-> [self EXCEPT !.ended = TRUE], exc |-> EndOfBlock(Some(line))]
    ELSE [self |-> self, exc |-> NoExc]

\* Paragraph.feed of hunyu: String.__init__ raises nothing
HunyuParagraphFeed(self, line) ==
    IF Strip(line) = <<>> \/ self.ended
    THEN [self |-> [self EXCEPT !.ended = TRUE], exc |-> EndOfBlock(Some(line))]
    ELSE [self |-> [self EXCEPT
              !.elements = Append(@, LineNew(HunyuStringInit(line)))],
          exc |-> NoExc]

\* Section.feed and PostScript.feed of hunyu (the same code)
HunyuSectionFeed(self, line) ==
    IF (Strip(line) # <<>> /\ ~StartsWith(line, <<"\t">>)) \/ self.ended
    THEN [self |-> [self EXCEPT !.ended = TRUE], exc |-> EndOfBlock(Some(line))]
    ELSE HunyuBlockFeed(self, Drop(line, 1))

\* CodeBlock.feed of hunyu
HunyuCodeBlockFeed(self, line) ==
    IF self.ended THEN [self |-> self, exc |-> EndOfBlock(Some(line))]
    ELSE IF line = CodeMark
    THEN [self |-> [self EXCEPT !.ended = TRUE], exc |-> EndOfBlock(None)]
    ELSE IF line # <<>> /\ ~StartsWith(line, <<"\t">>)
    THEN [self |-> self,
          exc |-> HunyuSyntaxError(
              "in code block, lines should be starts with tab character.")]
    ELSE [self |-> [self EXCEPT !.elements = Append(@,
              Replace(Replace(Replace(Drop(line, 1),
                                      <<"&">>, <<"&", "a", "m", "p", ";">>),
                              <<"<">>, <<"&", "l", "t", ";">>),
                      <<">">>, <<"&", "g", "t", ";">>))],
          exc |-> NoExc]

\* EmbeddedHTML.feed of hunyu
HunyuEmbeddedHTMLFeed(self, line) ==
    IF self.ended THEN [self |-> self, exc |-> EndOfBlock(Some(line))]
    ELSE IF StartsWith(line, HtmlClose)
    THEN [self |-> [self EXCEPT !.ended = TRUE], exc |-> EndOfBlock(None)]
    ELSE IF line # <<>> /\ ~StartsWith(line, <<"\t">>)
    THEN [self |-> self,
          exc |-> HunyuSyntaxError(
              "in embedded html, lines should be starts with tab character.")]
    ELSE [self |-> [self EXCEPT !.elements = Append(@, Drop(line, 1))],
          exc |-> NoExc]

\* elm.feed(line) in hunyu: the feed of the class of elm
HunyuElementFeed(elm, line) ==
    CASE elm.kind = "Paragraph" -> HunyuParagraphFeed(elm, line)
      [] elm.kind \in {"Section", "PostScript"} -> HunyuSectionFeed(elm, line)
      [] elm.kind = "CodeBlock" -> HunyuCodeBlockFeed(elm, line)
      [] elm.kind = "EmbeddedHTML" -> HunyuEmbeddedHTMLFeed(elm, line)

\* lines 163-186 of Block.feed of hunyu: the triggers; then the line goes
\* to the last element, and to a new Paragraph if the last element signals
\* it back, or there is none (IndexError), and the line is not blank
HunyuDispatch(self, line) ==
    IF StartsWith(line, SectionMark)
    THEN [self |-> AppendElement(self,
                       SectionNew(self.level + 1, Strip(Drop(line, 3)))),
          exc |-> NoExc]
    ELSE IF StartsWith(line, CodeMark)
    THEN [self |-> AppendElement(self,
                       CodeBlockNew(OrNone(Strip(Drop(line, 4))))),
          exc |-> NoExc]
    ELSE IF StartsWith(line, PostScriptMark)
    THEN LET parsed == strptime(Strip(Drop(line, 5)))
         IN  IF ~parsed.ok
             THEN [self |-> self,
                   exc |-> ValueError("time data does not match format")]
             ELSE [self |-> AppendElement(self,
                                PostScriptNew(self.level + 1, parsed.date)),
                   exc |-> NoExc]
    ELSE IF Strip(line) = HtmlOpen
    THEN [self |-> AppendElement(self, EmbeddedHTMLNew), exc |-> NoExc]
    ELSE LET last  == Len(self.elements)
             again == HunyuElementFeed(self.elements[last], line)
             para  == HunyuParagraphFeed(ParagraphNew, line)
         IN  IF last > 0 /\ again.exc.type # "EndOfBlock"
             THEN [self |-> SetLast(self, again.self), exc |-> again.exc]
             ELSE LET after == IF last > 0 THEN SetLast(self, again.self)
                               ELSE self
                  IN  IF Strip(line) # <<>>
                      THEN [self |-> AppendElement(after, para.self),
                            exc |-> para.exc]
                      ELSE [self |-> after, exc |-> NoExc]

\* Block.feed of hunyu
HunyuBlockFeed(self, line) ==
    IF /\ Len(self.elements) > 0
       /\ self.elements[Len(self.elements)].kind # "Paragraph"
    THEN LET r == HunyuElementFeed(self.elements[Len(self.elements)], line)
         IN  IF r.exc.type = "EndOfBlock"
             THEN IF r.exc.remain = None
                  THEN [self |-> SetLast(self, r.self), exc |-> NoExc]
                  ELSE HunyuDispatch(SetLast(self, r.self), line)
             ELSE [self |-> SetLast(self, r.self), exc |-> r.exc]
    ELSE HunyuDispatch(self, line)

\* Hunyu(initial_level)
HunyuNew(initial_level) ==
    [level |-> initial_level - 1, ended |-> FALSE, elements |-> <<>>,
     metadata |-> MetaDataNew]

\* Hunyu.feed
HunyuFeed(self, line) ==
    IF Contains(line, "\n")
    THEN [self |-> self,
          exc |-> ValueError("line argument can't include line break.")]
    ELSE IF self.metadata.ended
    THEN HunyuBlockFeed(self, line)
    ELSE LET r == HunyuMetaDataFeed(self.metadata, line)
         IN  [self |-> [self EXCEPT !.metadata = r.self],
              exc |-> IF r.exc.type = "EndOfBlock" THEN NoExc ELSE r.exc]

\* the as_html of Paragraph (with Line.as_html), Section, PostScript,
\* CodeBlock, EmbeddedHTML of hunyu
RECURSIVE HunyuBlockAsHtml(_)
HunyuBlockAsHtml(self) ==
    CASE self.kind = "Paragraph" ->
            ParagraphOpen
                \o Concat([i \in 1..Len(self.elements) |->
                       HunyuStringAsHtml(self.elements[i].elements)
                           \o LineBreak])
                \o ParagraphClose
      [] self.kind = "Section" ->
            LET number == Decimal(IF self.level < 6 THEN self.level ELSE 6)
            IN  SectionOpen \o number \o <<">">> \o self.title
                    \o HeadingClose \o number \o <<">", "\n">>
                    \o Concat([i \in 1..Len(self.elements) |->
                                  HunyuBlockAsHtml(self.elements[i])])
                    \o SectionClose
      [] self.kind = "PostScript" ->
            InsOpen \o isoformat(self.date) \o InsDate
                \o Concat([i \in 1..Len(self.elements) |->
                              HunyuBlockAsHtml(self.elements[i])])
                \o InsClose
      [] self.kind = "CodeBlock" ->
            PreOpen
                \o (IF self.type # None THEN PreClass \o self.type[1]
                    ELSE <<>>)
                \o <<"\"", ">", "\n">>
                \o Join(self.elements, <<"\n">>) \o PreClose
      [] self.kind = "EmbeddedHTML" ->
            Join(self.elements, <<"\n">>) \o <<"\n">>

\* Hunyu.as_html
HunyuAsHtml(self) ==
    Concat([i \in 1..Len(self.elements) |-> HunyuBlockAsHtml(self.elements[i])])

----------------------------------------------------------------------------
(* The lines and texts a caller feeds *)

\* the most Funyu.feed calls made on the document
MaxFeeds == 4

Lines ==
    { <<>>,
      <<"k", ":", "v">>,
      <<"a">>,
      <<"\t", "a">>,
      <<"\t", "\t", "<">>,
      <<"-", "-", " ", "s">>,
      <<"\t", "-", "-", " ", "t">>,
      <<Grave, Grave, Grave>>,
      <<"(", "(", "(">>,
      <<")", ")", ")">>,
      <<"p", ".", "s", ".", " ", "2", "0", "1", "5", "-", "4", "-", "1">>,
      <<"p", ".", "s", ".", " ", "x">>,
      <<"[", "[", "a">>,
      <<"a", "\n", "b">>,
      <<" ">>,
      <<"\t", "&", ">">>,
      <<"\t", "[", "[", "a">>,
      <<")", ")", ")", "x">> }

\* lines for the metadata block: key-value lines with inner colons, blanks
\* around key and value and repeated keys, a line without colon, lines
\* without key, blank lines
MetaLines ==
    { <<>>,
      <<" ">>,
      <<"a">>,
      <<"a", ":", "b">>,
      <<"a", ":", " ", "c">>,
      <<" ", "a", " ", ":", "b", " ">>,
      <<"a", ":", "b", ":", "c">>,
      <<"b", ":", ":">>,
      <<"a", " ", "b", ":">>,
      <<":", "b">>,
      <<" ", ":", " ">> }

Texts ==
    { <<"k", ":", "v", "\r", "\n", "\n", "a", "\n">>,
      <<"\n", Grave, Grave, Grave, "\n", "a">> }

----------------------------------------------------------------------------
(* The caller *)

Init ==
    /\ h = FunyuNew(1)
    /\ raised = NoExc
    /\ fed = <<>>
    /\ pending = <<>>

\* h.feed(line) has ended with the result r: it is recorded in the history
Return(line, r) ==
    /\ h' = r.self
    /\ raised' = r.exc
    /\ fed' = Append(fed, [line |-> line, raised |-> r.exc.type,
                           meta |-> ~h.metadata.ended])

\* one call h.feed(line)
Call(line) == Return(line, FunyuFeed(h, line))

\* the caller calls h.feed(line)
Feed(line) ==
    /\ pending = <<>>
    /\ Len(fed) < MaxFeeds
    /\ Call(line)
    /\ UNCHANGED pending

\* the caller calls h.parse(string): the loop is entered
Parse(string) ==
    /\ pending = <<>>
    /\ Len(fed) + Len(ParseLines(string)) <= MaxFeeds
    /\ pending' = ParseLines(string)
    /\ UNCHANGED <<h, raised, fed>>

\* one iteration of the loop of Funyu.parse; an exception leaves the loop
ParseFeed ==
    /\ pending # <<>>
    /\ Call(Head(pending))
    /\ pending' = IF raised'.type = "none" THEN Tail(pending) ELSE <<>>

Next ==
    \/ \E line \in Lines : Feed(line)
    \/ \E string \in Texts : Parse(string)
    \/ ParseFeed

Spec == Init /\ [][Next]_vars

\* the caller feeds the lines of a metadata block one by one
NextMeta == \E line \in MetaLines : Feed(line)

SpecMeta == Init /\ [][NextMeta]_vars

\* the initial_level arguments of Funyu(initial_level)
InitialLevels == {1, 5}

\* lines that nest Sections and PostScripts three deep
LevelLines ==
    { <<>>,
      <<"a">>,
      <<"-", "-", " ", "s">>,
      <<"\t", "-", "-", " ", "t">>,
      <<"\t", "\t", "-", "-", " ", "u">>,
      <<"\t", "\t", "a">>,
      <<"p", ".", "s", ".", " ", "2", "0", "1", "5", "-", "4", "-", "1">>,
      <<"\t", "p", ".", "s", ".", " ", "2", "0", "1", "5", "-", "4", "-", "1">> }

\* the document is constructed with one of the initial levels
InitLevels ==
    /\ h \in {FunyuNew(initial_level) : initial_level \in InitialLevels}
    /\ raised = NoExc
    /\ fed = <<>>
    /\ pending = <<>>

NextLevels == \E line \in LevelLines : Feed(line)

SpecLevels == InitLevels /\ [][NextLevels]_vars

\* the most delimiters and letters of a line of nested spans
MaxNest == 7

\* the most pieces of a line of links
MaxLinkTokens == 5

\* the texts made of at most n of the pieces
Pieces(tokens, n) ==
    UNION { {Concat(pieces) : pieces \in [1..k -> tokens]} : k \in 0..n }

\* lines of one kind of bracket, opened and closed in every order around
\* the letter a
NestLines ==
    UNION { Pieces({key, CloseOf(key), <<"a">>}, MaxNest) : key \in OpenBrackets }

\* lines of links and image links, in and after one another, after an open
\* bracket or not, with blanks or not
LinkLines ==
    Pieces({<<"[">>, <<"]", "(", "a", ")">>, <<"a">>, <<"[">> \o IMG,
            <<"<", "<">>, <<" ">>},
           MaxLinkTokens)

InlineLines == NestLines \cup LinkLines

\* the blank line that ends the metadata block
EndMetaData == fed = <<>> /\ Feed(<<>>)

\* one line of text, which the document gives to a new Paragraph
FeedText(line) == Len(fed) = 1 /\ Feed(line)

NextInline ==
    \/ EndMetaData
    \/ \E line \in InlineLines : FeedText(line)

SpecInline == Init /\ [][NextInline]_vars

----------------------------------------------------------------------------
(* Properties *)

\* the record of the last Funyu.feed call
LastFed == fed[Len(fed)]

\* this step is a Funyu.feed call
Called == fed' # fed

\* the line of the call this step makes
CalledLine == fed'[Len(fed')].line

IsLine(line) == ~Contains(line, "\n")

LineBreakMessage == "line argument can't include line break."

KeyValueMessage == "metadata block expects key-value separated by semicolon."

\* C1: no Funyu.feed call, made by the caller or by Funyu.parse, lets an
\* EndOfBlock reach the caller: a call returns or raises a FunyuSyntaxError
\* or a ValueError.
C1_NoEndOfBlockEscapes ==
    raised.type \in {"none", "FunyuSyntaxError", "ValueError"}

\* a Section was ended by a line it signalled back, the line went on to a
\* new Paragraph, and the call returned normally
C1_Witness ==
    /\ raised.type = "none"
    /\ Len(h.elements) = 2
    /\ h.elements[1].kind = "Section"
    /\ h.elements[1].ended
    /\ h.elements[2].kind = "Paragraph"
    /\ LastFed.line = <<"a">>

\* the paths (index sequences) of the blocks of a tree that have ended
RECURSIVE EndedPaths(_)
EndedPaths(elements) ==
    UNION { (IF elements[i].ended THEN {<<i>>} ELSE {})
            \cup (IF elements[i].kind \in {"Section", "PostScript"}
                  THEN {<<i>> \o path : path \in EndedPaths(elements[i].elements)}
                  ELSE {})
          : i \in 1..Len(elements) }

\* C2: ended is monotonic: a block that has ended (the metadata block or
\* any block of the tree, which keeps its place) has ended after every step.
C2_EndedMonotonic ==
    [][ /\ h.metadata.ended => h'.metadata.ended
        /\ EndedPaths(h.elements) \subseteq EndedPaths(h'.elements) ]_vars

\* an ended Paragraph was fed a text line again and is still ended
C2_Witness ==
    /\ Len(h.elements) = 2
    /\ h.elements[1].kind = "Paragraph"
    /\ h.elements[1].ended
    /\ h.elements[2].kind = "Paragraph"
    /\ LastFed.line = <<"a">>
    /\ LastFed.raised = "none"

\* C3: while the metadata block has not ended the block tree is and stays
\* empty; once it has ended the metadata never changes again and an
\* accepted text line (a 'key: value' line too) changes the block tree.
C3_MetadataPhase ==
    [][ /\ ~h.metadata.ended => h.elements = <<>> /\ h'.elements = <<>>
        /\ h.metadata.ended => h'.metadata = h.metadata
        /\ ( /\ h.metadata.ended
             /\ Called
             /\ raised'.type = "none"
             /\ Strip(CalledLine) # <<>> )
           => h'.elements # h.elements ]_vars

\* after the metadata ended, a 'k:v' line became the text of a Paragraph
C3_Witness ==
    /\ h.metadata.ended
    /\ h.metadata.items # <<>>
    /\ ~LastFed.meta
    /\ LastFed.line = <<"k", ":", "v">>
    /\ LastFed.raised = "none"
    /\ h.elements[Len(h.elements)].kind = "Paragraph"

\* a call feeds the un-ended metadata block a non-blank line without ':'
FeedsTextToMetaData ==
    /\ Called
    /\ ~h.metadata.ended
    /\ IsLine(CalledLine)
    /\ Strip(CalledLine) # <<>>
    /\ ~Contains(CalledLine, ":")

\* C4 as claimed: a non-blank line without ':' fed to the un-ended metadata
\* block ends it, as a blank line does.
C4_TextEndsMetaData ==
    [][ FeedsTextToMetaData => h'.metadata.ended ]_vars

\* C4 as amended: a non-blank line without ':' raises the key-value syntax
\* error and leaves the metadata block un-ended; a blank line ends it, and
\* from then on the block takes no further input.
C4_TextIsRefused ==
    [][ /\ FeedsTextToMetaData =>
              /\ raised'.type = "FunyuSyntaxError"
              /\ raised'.message = KeyValueMessage
              /\ ~h'.metadata.ended
        /\ ( /\ Called
             /\ ~h.metadata.ended
             /\ IsLine(CalledLine)
             /\ Strip(CalledLine) = <<>> ) => h'.metadata.ended
        /\ h.metadata.ended => h'.metadata = h.metadata ]_vars

\* a text line was refused by the metadata block, which then took a pair
C4_Witness ==
    /\ ~h.metadata.ended
    /\ h.metadata.items # <<>>
    /\ LastFed.raised = "none"
    /\ \E i \in 1..(Len(fed) - 1) :
           /\ fed[i].line = <<"a">>
           /\ fed[i].raised = "FunyuSyntaxError"

\* the text of a line before its first ':' and after it
FirstColon(line) ==
    CHOOSE i \in 1..Len(line) :
        line[i] = ":" /\ \A j \in 1..(i - 1) : line[j] # ":"

KeyOf(line) == Strip(SubSeq(line, 1, FirstColon(line) - 1))

ValueOf(line) == Strip(SubSeq(line, FirstColon(line) + 1, Len(line)))

\* C5: a non-blank line without ':' fed to the un-ended metadata block
\* raises the key-value syntax error, a line with nothing but blanks before
\* its first ':' raises 'key is required.', and either leaves the mapping
\* and the ended flag as they were.
C5_MalformedMetaData ==
    [][ ( /\ Called
          /\ ~h.metadata.ended
          /\ IsLine(CalledLine)
          /\ Strip(CalledLine) # <<>> )
        => /\ ~Contains(CalledLine, ":") =>
                  /\ raised'.type = "FunyuSyntaxError"
                  /\ raised'.message = KeyValueMessage
                  /\ h'.metadata = h.metadata
           /\ (Contains(CalledLine, ":") /\ KeyOf(CalledLine) = <<>>) =>
                  /\ raised'.type = "FunyuSyntaxError"
                  /\ raised'.message = "key is required."
                  /\ h'.metadata = h.metadata ]_vars

\* both errors were raised on a block that holds a pair, and it is as before
C5_Witness ==
    /\ raised.message = "key is required."
    /\ LastFed.line = <<":", "b">>
    /\ ~h.metadata.ended
    /\ Len(h.metadata.items) = 1
    /\ \E i \in 1..(Len(fed) - 1) :
           /\ fed[i].line = <<"a">>
           /\ fed[i].raised = "FunyuSyntaxError"

\* the calls whose key-value line the metadata block accepted
Accepted ==
    {i \in 1..Len(fed) :
        fed[i].meta /\ fed[i].raised = "none" /\ Strip(fed[i].line) # <<>>}

\* C6: the metadata maps exactly the keys of the accepted lines, each to
\* the value of the last accepted line with that key: the key is the text
\* before the first ':' and the value all the text after it, both trimmed.
C6_MetaDataExtraction ==
    /\ \A i \in Accepted : HasKey(h.metadata.items, KeyOf(fed[i].line))
    /\ \A n \in 1..Len(h.metadata.items) :
          /\ \A m \in 1..Len(h.metadata.items) :
                h.metadata.items[m].key = h.metadata.items[n].key => m = n
          /\ \E i \in Accepted :
                /\ KeyOf(fed[i].line) = h.metadata.items[n].key
                /\ ValueOf(fed[i].line) = h.metadata.items[n].value
                /\ \A j \in Accepted :
                      KeyOf(fed[j].line) = h.metadata.items[n].key => j <= i

\* a key was overwritten by a value that holds a ':', and a blank line
\* ended the block
C6_Witness ==
    /\ h.metadata.ended
    /\ Len(h.metadata.items) = 1
    /\ h.metadata.items[1].key = <<"a">>
    /\ h.metadata.items[1].value = <<"b", ":", "c">>
    /\ Cardinality(Accepted) = 2

\* C7: the lines of metadata.as_funyu(), then a blank line, fed to a new
\* document give the same mapping, in the same order, and nothing else.
C7_MetaDataRoundTrip ==
    LET again == FeedEach(FunyuNew(1),
                     Append(ParseLines(MetaDataAsFunyu(h.metadata)), <<>>))
    IN  /\ again.exc.type = "none"
        /\ again.self.metadata.items = h.metadata.items
        /\ again.self.elements = <<>>

\* a mapping of two keys, one value with a ':' in it and one empty
C7_Witness ==
    /\ Len(h.metadata.items) = 2
    /\ \E n \in 1..2 : Contains(h.metadata.items[n].value, ":")
    /\ \E n \in 1..2 : h.metadata.items[n].value = <<>>

\* two block sequences with the same kinds, levels, titles, types, dates and
\* nesting, the same Lines in every Paragraph and the same text in every
\* CodeBlock and EmbeddedHTML
RECURSIVE SameBlocks(_, _)
SameBlocks(a, b) ==
    /\ Len(a) = Len(b)
    /\ \A i \in 1..Len(a) :
          /\ a[i].kind = b[i].kind
          /\ a[i].level = b[i].level
          /\ a[i].title = b[i].title
          /\ a[i].type = b[i].type
          /\ a[i].date = b[i].date
          /\ CASE a[i].kind \in {"Section", "PostScript"} ->
                     SameBlocks(a[i].elements, b[i].elements)
               [] a[i].kind = "Paragraph" -> a[i].elements = b[i].elements
               [] OTHER -> Join(a[i].elements, <<"\n">>)
                               = Join(b[i].elements, <<"\n">>)

\* every call made so far returned normally and no parse call is running
ErrorFree ==
    /\ pending = <<>>
    /\ \A i \in 1..Len(fed) : fed[i].raised = "none"

\* C8: a document built without error and the document parsed from its
\* as_funyu() have the same metadata and equivalent block trees.
C8_DocumentRoundTrip ==
    ErrorFree =>
        LET again == FunyuParse(FunyuNew(h.level + 1), FunyuAsFunyu(h))
        IN  /\ again.exc.type = "none"
            /\ again.self.metadata.items = h.metadata.items
            /\ SameBlocks(again.self.elements, h.elements)

\* C9: a call with a line that holds a line break raises the ValueError of
\* Funyu.feed and leaves the metadata and the block tree as they were.
C9_LineBreakRefused ==
    [][ (Called /\ Contains(CalledLine, "\n"))
        => /\ raised'.type = "ValueError"
           /\ raised'.message = LineBreakMessage
           /\ h'.metadata = h.metadata
           /\ h'.elements = h.elements ]_vars

\* the line was refused while a Section with an open block in it was open
C9_Witness ==
    /\ raised.message = LineBreakMessage
    /\ h.metadata.ended
    /\ Len(h.elements) = 1
    /\ h.elements[1].kind = "Section"
    /\ ~h.elements[1].ended
    /\ h.elements[1].elements # <<>>
    /\ ~h.elements[1].elements[1].ended

\* C10: a FunyuSyntaxError that leaves Funyu.feed carries the number of
\* Funyu.feed calls made on the document so far, this one and those that
\* raised included.
C10_ErrorLineNumber ==
    raised.type = "FunyuSyntaxError" => raised.line_number = Some(Len(fed))

\* a syntax error at the third call or later, after a call that raised
C10_Witness ==
    /\ raised.type = "FunyuSyntaxError"
    /\ Len(fed) >= 3
    /\ \E i \in 1..(Len(fed) - 1) : fed[i].raised = "ValueError"

\* the line is a post-script trigger whose text holds no digit, so it is
\* not a date
BadPostScript(line) ==
    /\ StartsWith(line, PostScriptMark)
    /\ \A i \in 1..Len(line) : line[i] \notin Digits

\* C11: a post-script trigger line whose text is not a date, fed to the
\* document after the metadata block, raises a FunyuSyntaxError that carries
\* the line number.
C11_BadDateIsSyntaxError ==
    (fed # <<>> /\ ~LastFed.meta /\ BadPostScript(LastFed.line))
        => /\ raised.type = "FunyuSyntaxError"
           /\ raised.line_number = Some(Len(fed))

\* the paths (index sequences) of the blocks of a tree whose kind is in kinds
RECURSIVE PathsOf(_, _)
PathsOf(elements, kinds) ==
    UNION { (IF elements[i].kind \in kinds THEN {<<i>>} ELSE {})
            \cup (IF elements[i].kind \in {"Section", "PostScript"}
                  THEN {<<i>> \o path : path \in PathsOf(elements[i].elements, kinds)}
                  ELSE {})
          : i \in 1..Len(elements) }

\* the block of a tree at a path
RECURSIVE BlockAt(_, _)
BlockAt(elements, path) ==
    IF Len(path) = 1 THEN elements[path[1]]
    ELSE BlockAt(elements[path[1]].elements, Tail(path))

\* the lines a caller can feed: those of the model without a line break
FeedLines == {line \in Lines : IsLine(line)}

\* C12: for every Section and PostScript of the document and every line: an
\* open block takes a blank line or a line that starts with a tab as
\* Block.feed of the line without its first character, and stays open; it
\* ends on any other line, which it signals back whole, and keeps its
\* elements; an ended block signals every line back whole and does not change.
C12_Containment ==
    \A path \in PathsOf(h.elements, {"Section", "PostScript"}) :
      \A line \in FeedLines :
        LET self == BlockAt(h.elements, path)
            r == SectionFeed(self, line)
        IN  IF self.ended
            THEN r.exc = EndOfBlock(Some(line)) /\ r.self = self
            ELSE IF Strip(line) = <<>> \/ Head(line) = "\t"
            THEN /\ r.exc.type # "EndOfBlock"
                 /\ ~r.self.ended
                 /\ r.exc = BlockFeed(self, Drop(line, 1)).exc
                 /\ r.self.elements = BlockFeed(self, Drop(line, 1)).self.elements
            ELSE /\ r.exc = EndOfBlock(Some(line))
                 /\ r.self.ended
                 /\ r.self.elements = self.elements

\* an ended Section signalled a line with a leading tab back, and the line
\* went to a new Paragraph after the Section
C12_Witness ==
    /\ Len(h.elements) = 2
    /\ h.elements[1].kind = "Section"
    /\ h.elements[1].ended
    /\ h.elements[2].kind = "Paragraph"
    /\ LastFed.line = <<"\t", "a">>
    /\ LastFed.raised = "none"
    /\ fed[Len(fed) - 1].raised = "ValueError"

\* the blank lines among the lines a caller can feed
BlankLines == {line \in FeedLines : Strip(line) = <<>>}

\* the containers of the document: the paths of its Sections and
\* PostScripts, and <<>> for the document
ContainerPaths == {<<>>} \cup PathsOf(h.elements, {"Section", "PostScript"})

\* the container at a path
ContainerAt(path) == IF path = <<>> THEN h ELSE BlockAt(h.elements, path)

\* the containers whose last element is an open Paragraph
OpenParagraphPaths ==
    {path \in ContainerPaths :
        LET self == ContainerAt(path)
        IN  /\ self.elements # <<>>
            /\ self.elements[Len(self.elements)].kind = "Paragraph"
            /\ ~self.elements[Len(self.elements)].ended}

\* a Paragraph fed a line that ends it or after it has ended: it is ended
\* and keeps its lines
EndsUnchanged(self, r) ==
    /\ r.exc.type = "EndOfBlock"
    /\ r.self.ended
    /\ r.self.elements = self.elements

\* C13 as stated: a blank line ends an open Paragraph with an EndOfBlock
\* that carries no remainder; an ended Paragraph signals every non-blank line
\* back as the remainder and keeps its lines.
C13_BlankCarriesNoRemainder ==
    \A path \in PathsOf(h.elements, {"Paragraph"}) :
      \A line \in FeedLines :
        LET self == BlockAt(h.elements, path)
            r == ParagraphFeed(self, line)
        IN  /\ (~self.ended /\ Strip(line) = <<>>)
                => EndsUnchanged(self, r) /\ r.exc.remain = None
            /\ (self.ended /\ Strip(line) # <<>>)
                => EndsUnchanged(self, r) /\ r.exc.remain = Some(line)

\* C13: a blank line ends an open Paragraph with an EndOfBlock whose
\* remainder is the blank line itself, and the container of the Paragraph
\* drops it: its feed returns and adds no element; an ended Paragraph signals
\* every line back as the remainder; in both cases the Paragraph keeps its
\* lines.
C13_BlankEndsParagraph ==
    /\ \A path \in PathsOf(h.elements, {"Paragraph"}) :
         \A line \in FeedLines :
           LET self == BlockAt(h.elements, path)
               r == ParagraphFeed(self, line)
           IN  (self.ended \/ Strip(line) = <<>>)
                   => EndsUnchanged(self, r) /\ r.exc.remain = Some(line)
    /\ \A path \in OpenParagraphPaths :
         \A line \in BlankLines :
           LET self == ContainerAt(path)
               r == BlockFeed(self, line)
               n == Len(self.elements)
           IN  /\ r.exc = NoExc
               /\ Len(r.self.elements) = n
               /\ r.self.elements[n].ended
               /\ r.self.elements[n].elements = self.elements[n].elements
               /\ \A i \in 1..(n - 1) : r.self.elements[i] = self.elements[i]

\* a blank line ended a Paragraph of one line and the text line after it
\* went to a second Paragraph
C13_Witness ==
    /\ Len(fed) = 4
    /\ fed[3].line \in BlankLines
    /\ LastFed.line = <<"a">>
    /\ Len(h.elements) = 2
    /\ h.elements[1].kind = "Paragraph"
    /\ h.elements[1].ended
    /\ Len(h.elements[1].elements) = 1
    /\ h.elements[2].kind = "Paragraph"
    /\ ~h.elements[2].ended
    /\ Len(h.elements[2].elements) = 1

\* the entity of a character in the text of a code block
Entity(c) ==
    CASE c = "&" -> <<"&", "a", "m", "p", ";">>
      [] c = "<" -> <<"&", "l", "t", ";">>
      [] c = ">" -> <<"&", "g", "t", ";">>
      [] OTHER -> <<c>>

\* a text with every character replaced by its entity, once
Entities(text) == Concat([i \in 1..Len(text) |-> Entity(text[i])])

CodeBlockMessage == "in code block, lines should be starts with tab character."

\* C14: for every CodeBlock of the document and every line: an open block
\* ends on the line of three grave accents and consumes it, appends an empty
\* line or a line that starts with a tab as one content line (the text after
\* the tab, with its entities), refuses any other line with the code block
\* syntax error and does not change; an ended block signals every line back
\* whole and does not change.
C14_CodeBlockProtocol ==
    \A path \in PathsOf(h.elements, {"CodeBlock"}) :
      \A line \in FeedLines :
        LET self == BlockAt(h.elements, path)
            r == CodeBlockFeed(self, line)
        IN  IF self.ended
            THEN r.exc = EndOfBlock(Some(line)) /\ r.self = self
            ELSE IF line = <<Grave, Grave, Grave>>
            THEN /\ r.exc = EndOfBlock(None)
                 /\ r.self = [self EXCEPT !.ended = TRUE]
            ELSE IF line = <<>> \/ Head(line) = "\t"
            THEN /\ r.exc = NoExc
                 /\ ~r.self.ended
                 /\ r.self.elements
                        = Append(self.elements, Entities(Drop(line, 1)))
            ELSE /\ r.exc = FunyuSyntaxError(CodeBlockMessage)
                 /\ r.self = self

\* a CodeBlock took a line and was ended by the line of three grave accents
C14_Witness ==
    /\ Len(h.elements) = 1
    /\ h.elements[1].kind = "CodeBlock"
    /\ h.elements[1].ended
    /\ h.elements[1].elements = << <<"a">> >>
    /\ LastFed.line = <<Grave, Grave, Grave>>
    /\ LastFed.raised = "none"

\* the entities CodeBlock.feed writes
EntityNames ==
    {<<"&", "a", "m", "p", ";">>, <<"&", "l", "t", ";">>, <<"&", "g", "t", ";">>}

\* a text without '<' and '>' in which every '&' starts an entity
Escaped(text) ==
    \A i \in 1..Len(text) :
        /\ text[i] \notin {"<", ">"}
        /\ text[i] = "&" => \E name \in EntityNames : StartsWith(Drop(text, i - 1), name)

\* the text CodeBlock.as_html writes between the line of the pre tag and
\* the closing tag
PreBody(self) ==
    SubSeq(BlockAsHtml(self),
           Len(PreOpen) + Len(CodeClass(self)) + 4,
           Len(BlockAsHtml(self)) - Len(PreClose))

\* the last block of the document is an open CodeBlock
CodeBlockOpen ==
    /\ h.elements # <<>>
    /\ h.elements[Len(h.elements)].kind = "CodeBlock"
    /\ ~h.elements[Len(h.elements)].ended

\* C15: every content line of every CodeBlock of the document is free of
\* '<' and '>' and each of its '&' starts one of the three entities, and so
\* is the content as_html writes; the content line an open CodeBlock gets
\* from a call is the text after the tab with each '&', '<' and '>' replaced
\* by its entity once.
C15_CodeBlockEscaped ==
    /\ [](\A path \in PathsOf(h.elements, {"CodeBlock"}) :
            LET self == BlockAt(h.elements, path)
            IN  /\ \A i \in 1..Len(self.elements) : Escaped(self.elements[i])
                /\ BlockAsHtml(self)
                     = PreOpen \o CodeClass(self) \o <<"\"", ">", "\n">>
                         \o PreBody(self) \o PreClose
                /\ PreBody(self) = Join(self.elements, <<"\n">>)
                /\ Escaped(PreBody(self)))
    /\ [][ (Called /\ CodeBlockOpen /\ raised'.type = "none"
               /\ CalledLine # <<Grave, Grave, Grave>>)
           => LET n == Len(h.elements)
              IN  h'.elements[n].elements
                    = Append(h.elements[n].elements,
                             Entities(Drop(CalledLine, 1))) ]_vars

\* the first block of the document is a CodeBlock that holds the entities
\* of '&' and '>'
C15_Witness ==
    /\ h.elements # <<>>
    /\ h.elements[1].kind = "CodeBlock"
    /\ h.elements[1].elements
         = << <<"&", "a", "m", "p", ";", "&", "g", "t", ";">> >>

\* the lines, each followed by a line break; one line break for no line
Verbatim(lines) ==
    IF lines = <<>> THEN <<"\n">>
    ELSE Concat([i \in 1..Len(lines) |-> lines[i] \o <<"\n">>])

\* the last block of the document is an open EmbeddedHTML
EmbeddedHTMLOpen ==
    /\ h.elements # <<>>
    /\ h.elements[Len(h.elements)].kind = "EmbeddedHTML"
    /\ ~h.elements[Len(h.elements)].ended

\* C16: the as_html of every EmbeddedHTML of the document is its content
\* lines, each followed by a line break; an open EmbeddedHTML is ended by
\* every line that starts with ')))' and keeps its content, and takes an
\* empty line or a line that starts with a tab as the text after the tab,
\* character by character; the as_html of the document's open EmbeddedHTML
\* after such a call ends with that text.
C16_EmbeddedHTMLVerbatim ==
    /\ [](\A path \in PathsOf(h.elements, {"EmbeddedHTML"}) :
            LET self == BlockAt(h.elements, path)
            IN  /\ BlockAsHtml(self) = Verbatim(self.elements)
                /\ ~self.ended =>
                     \A line \in FeedLines :
                        LET r == EmbeddedHTMLFeed(self, line)
                        IN  /\ StartsWith(line, <<")", ")", ")">>)
                                => /\ r.exc = EndOfBlock(None)
                                   /\ r.self = [self EXCEPT !.ended = TRUE]
                            /\ (line = <<>> \/ StartsWith(line, <<"\t">>))
                                => /\ r.exc = NoExc
                                   /\ r.self.elements
                                        = Append(self.elements, Drop(line, 1)))
    /\ [][ (Called /\ EmbeddedHTMLOpen /\ raised'.type = "none"
               /\ ~StartsWith(CalledLine, <<")", ")", ")">>))
           => LET n == Len(h.elements)
                  html == BlockAsHtml(h'.elements[n])
                  text == Drop(CalledLine, 1) \o <<"\n">>
              IN  /\ Len(h'.elements) = n
                  /\ Len(html) >= Len(text)
                  /\ Drop(html, Len(html) - Len(text)) = text
                  /\ h.elements[n].elements # <<>>
                       => html = BlockAsHtml(h.elements[n]) \o text ]_vars

\* an EmbeddedHTML took a line with an open bracket as it is and was ended
\* by a line that starts with ')))'
C16_Witness ==
    /\ Len(h.elements) = 1
    /\ h.elements[1].kind = "EmbeddedHTML"
    /\ h.elements[1].ended
    /\ h.elements[1].elements = << <<"[", "[", "a">> >>
    /\ LastFed.line = <<")", ")", ")", "x">>
    /\ LastFed.raised = "none"

\* min(level, 6)
AtMostSix(level) == CHOOSE k \in {level, 6} : k <= level /\ k <= 6

\* C17: a Section or PostScript has the level of the document's top-level
\* blocks (h.level + 1, the initial level) plus the number of containers
\* around it; no step changes the level of the document or of a block; the
\* as_html of a Section starts with the heading tag numbered min(level, 6).
C17_Levels ==
    /\ [](\A path \in PathsOf(h.elements, {"Section", "PostScript"}) :
            LET self == BlockAt(h.elements, path)
            IN  /\ self.level = (h.level + 1) + (Len(path) - 1)
                /\ self.kind = "Section" =>
                     StartsWith(BlockAsHtml(self),
                                SectionOpen \o Decimal(AtMostSix(self.level))
                                    \o <<">">> \o self.title \o HeadingClose
                                    \o Decimal(AtMostSix(self.level))
                                    \o <<">", "\n">>))
    /\ [][ /\ h'.level = h.level
           /\ \A path \in PathsOf(h.elements, {"Paragraph", "Section",
                                  "PostScript", "CodeBlock", "EmbeddedHTML"}) :
                 /\ BlockAt(h'.elements, path).kind
                      = BlockAt(h.elements, path).kind
                 /\ BlockAt(h'.elements, path).level
                      = BlockAt(h.elements, path).level ]_vars

\* a document of initial level 5 holds a Section of level 7, two containers
\* deep, whose heading is numbered 6
C17_Witness ==
    /\ h.level = 4
    /\ \E path \in PathsOf(h.elements, {"Section"}) :
          /\ Len(path) = 3
          /\ BlockAt(h.elements, path).level = 7
          /\ StartsWith(BlockAsHtml(BlockAt(h.elements, path)),
                        SectionOpen \o <<"6", ">">>)

\* the line is made of the bracket key, its close delimiter and letters
OfOneKind(line, key) ==
    \A i \in 1..Len(line) : line[i] \in {key[1], CloseOf(key)[1], "a"}

\* the index in s of the close delimiter that brings the depth of the
\* bracket key, which is depth at index i, back to zero; -1 if there is none
RECURSIVE GroupEnd(_, _, _, _)
GroupEnd(s, key, i, depth) ==
    IF i >= Len(s) THEN -1
    ELSE IF Slice(s, i, i + 2) = key THEN GroupEnd(s, key, i + 2, depth + 1)
    ELSE IF Slice(s, i, i + 2) = CloseOf(key)
    THEN IF depth = 1 THEN i ELSE GroupEnd(s, key, i + 2, depth - 1)
    ELSE GroupEnd(s, key, i + 1, depth)

\* the delimiters of s from index i on are properly nested at this depth
RECURSIVE ProperlyNested(_, _, _, _)
ProperlyNested(s, key, i, depth) ==
    IF i >= Len(s) THEN depth = 0
    ELSE IF Slice(s, i, i + 2) = key THEN ProperlyNested(s, key, i + 2, depth + 1)
    ELSE IF Slice(s, i, i + 2) = CloseOf(key)
    THEN depth > 0 /\ ProperlyNested(s, key, i + 2, depth - 1)
    ELSE ProperlyNested(s, key, i + 1, depth)

\* the kind of the element of a bracket
KindOf(key) ==
    IF key = <<"[", "[">> THEN "Keyword"
    ELSE IF key = <<"<", "<">> THEN "Emphasis"
    ELSE "Code"

\* the inline elements of the line the document gave to its Paragraph
ParsedLine == h.elements[1].elements[1].elements

\* C18: a line of properly nested delimiters of one kind that starts with
\* the open delimiter is parsed without error, and its first span is of the
\* delimiter's kind and runs to the close delimiter that brings the depth
\* back to zero.
C18_DepthAwareMatching ==
    \A key \in OpenBrackets :
       ( /\ Len(fed) = 2
         /\ StartsWith(LastFed.line, key)
         /\ OfOneKind(LastFed.line, key)
         /\ ProperlyNested(LastFed.line, key, 0, 0) )
       => /\ raised.type = "none"
          /\ Len(ParsedLine) >= 2
          /\ ParsedLine[2].kind = KindOf(key)
          /\ StringAsFunyu(<<ParsedLine[2]>>)
               = Slice(LastFed.line, 0, GroupEnd(LastFed.line, key, 2, 1) + 2)

InlineMessage == "inline element is required close bracket."

\* the bracket key opens at some index of the line and its close delimiter
\* stands nowhere after it
OpenWithoutClose(line, key) ==
    \E i \in 0..(Len(line) - 2) :
        /\ Slice(line, i, i + 2) = key
        /\ \A j \in (i + 2)..(Len(line) - 2) : Slice(line, j, j + 2) # CloseOf(key)

\* C19: a line of brackets of one kind in which an open delimiter has no
\* close delimiter after it raises the close bracket syntax error.
C19_UnmatchedOpenIsFatal ==
    \A key \in OpenBrackets :
       ( /\ Len(fed) = 2
         /\ OfOneKind(LastFed.line, key)
         /\ OpenWithoutClose(LastFed.line, key) )
       => /\ raised.type = "FunyuSyntaxError"
          /\ raised.message = InlineMessage

LinkMessage == "link element can't including link."

\* the indexes of s at which a link pattern '[...](...)' can start
LinkStarts(s) ==
    {i \in 1..Len(s) :
        /\ s[i] = "["
        /\ \E j \in (i + 1)..(Len(s) - 2) :
              /\ s[j] = "]"
              /\ s[j + 1] = "("
              /\ \E k \in (j + 2)..Len(s) : s[k] = ")"}

\* the text holds a link pattern
HasLinkPattern(s) == LinkStarts(s) # {}

\* the index of the last '](' of s that has a ')' after it
LastTextEnd(s) ==
    SetMax({j \in 1..(Len(s) - 2) :
               /\ s[j] = "]"
               /\ s[j + 1] = "("
               /\ \E k \in (j + 2)..Len(s) : s[k] = ")"})

\* the text of the link construct of s, which starts at the first index a
\* pattern can start and runs to the last '](' ; the type 'IMG:' is not
\* part of it
TextPart(s) ==
    LET text == SubSeq(s, SetMin(LinkStarts(s)) + 1, LastTextEnd(s) - 1)
    IN  IF StartsWith(text, <<"I", "M", "G", ":">>) THEN Drop(text, 4) ELSE text

\* the text before the link construct of s
TextBefore(s) == SubSeq(s, 1, SetMin(LinkStarts(s)) - 1)

\* the text holds an open delimiter
HasOpenBracket(s) ==
    \E i \in 0..(Len(s) - 2) : Slice(s, i, i + 2) \in OpenBrackets

\* the line of the last call has a link construct whose text holds a link
\* pattern
NestedLinkFed ==
    /\ Len(fed) = 2
    /\ HasLinkPattern(LastFed.line)
    /\ HasLinkPattern(TextPart(LastFed.line))

LastParen(s) == SetMax({k \in 1..Len(s) : s[k] = ")"})

\* the uri of the link construct of s: the text from its last '](' to the
\* last ')'
UriPart(s) == SubSeq(s, LastTextEnd(s) + 2, LastParen(s) - 1)

\* the link construct of s is an image link
IsImage(s) ==
    StartsWith(Drop(s, SetMin(LinkStarts(s))), <<"I", "M", "G", ":">>)

\* a line as as_funyu writes it: a line without link construct as it is;
\* the text and the uri of a link construct without the blanks around them,
\* and one blank after the type of an image link
Normalised(s) ==
    IF ~HasLinkPattern(s) THEN s
    ELSE TextBefore(s) \o <<"[">>
           \o (IF IsImage(s) THEN <<"I", "M", "G", ":", " ">> ELSE <<>>)
           \o Strip(TextPart(s)) \o <<"]", "(">> \o Strip(UriPart(s)) \o <<")">>
           \o Drop(s, LastParen(s))

\* the document has parsed the line of text of the last call
TextParsed ==
    /\ Len(fed) = 2
    /\ Strip(LastFed.line) # <<>>
    /\ raised.type = "none"

\* C21 as stated: the as_funyu of the inline elements of a line that scans
\* without error is the line.
C21_AsFunyuIsTheLine ==
    TextParsed => StringAsFunyu(ParsedLine) = LastFed.line

\* C21: the as_funyu of the inline elements of a line that scans without
\* error is the line if the line has no link construct; if it has one, it is
\* the line with the text and the uri of the construct stripped of the blanks
\* around them and one blank after the type 'IMG:'.
C21_AsFunyuIsTheNormalisedLine ==
    TextParsed => StringAsFunyu(ParsedLine) = Normalised(LastFed.line)

\* an image link with blanks around its text was parsed and is written back
\* with one blank before the text
C21_Witness ==
    /\ TextParsed
    /\ LastFed.line = <<"[", "I", "M", "G", ":", "a", " ", "]", "(", "a", ")">>
    /\ StringAsFunyu(ParsedLine)
         = <<"[", "I", "M", "G", ":", " ", "a", "]", "(", "a", ")">>

\* the line starts with the mark of a block
IsTrigger(line) ==
    \/ StartsWith(line, SectionMark)
    \/ StartsWith(line, CodeMark)
    \/ StartsWith(line, PostScriptMark)
    \/ Strip(line) = HtmlOpen

\* the line is a 'p.s. ' line whose date does not parse
BadDate(line) ==
    /\ ~StartsWith(line, SectionMark)
    /\ ~StartsWith(line, CodeMark)
    /\ StartsWith(line, PostScriptMark)
    /\ ~strptime(Strip(Drop(line, 5))).ok

\* the block a trigger line opens in a container of a level
Triggered(level, line) ==
    IF StartsWith(line, SectionMark)
    THEN SectionNew(level + 1, Strip(Drop(line, 3)))
    ELSE IF StartsWith(line, CodeMark)
    THEN CodeBlockNew(OrNone(Strip(Drop(line, 4))))
    ELSE IF StartsWith(line, PostScriptMark)
    THEN PostScriptNew(level + 1, strptime(Strip(Drop(line, 5))).date)
    ELSE EmbeddedHTMLNew

\* a new Paragraph whose single line is the line
ParagraphOf(line) ==
    [ParagraphNew EXCEPT !.elements = <<LineNew(StringInit(line).elements)>>]

\* the one child a non-blank line gives when it is evaluated anew
NewChild(level, line) ==
    IF IsTrigger(line) THEN Triggered(level, line) ELSE ParagraphOf(line)

\* the containers whose last element is a Section, a PostScript, a CodeBlock
\* or an EmbeddedHTML
LastIsBlockPaths ==
    {path \in ContainerPaths :
        /\ Len(ContainerAt(path).elements) > 0
        /\ ContainerAt(path).elements[Len(ContainerAt(path).elements)].kind
             # "Paragraph"}

\* the last element of a container
LastOf(self) == self.elements[Len(self.elements)]

\* the last element of a container signals the line back
SignalsBack(self, line) ==
    /\ ElementFeed(LastOf(self), line).exc.type = "EndOfBlock"
    /\ ElementFeed(LastOf(self), line).exc.remain # None

\* the elements of a container after its last element took the transition
\* of the line, and nothing else
AfterSignal(self, line) ==
    SetLast(self, ElementFeed(LastOf(self), line).self).elements

\* C22 as stated: when its last element signals a line back, a container
\* appends nothing for a blank line and exactly one child for every other
\* line: the triggered block ('p.s. ' with a valid date) or a Paragraph whose
\* single line is the line.
C22_RemainderGivesOneChild ==
    \A path \in LastIsBlockPaths :
      \A line \in FeedLines :
        LET self == ContainerAt(path)
            r == BlockFeed(self, line)
        IN  SignalsBack(self, line) =>
              IF Strip(line) = <<>>
              THEN r.self.elements = AfterSignal(self, line)
              ELSE r.self.elements
                     = Append(AfterSignal(self, line),
                              IF IsTrigger(line) /\ ~BadDate(line)
                              THEN Triggered(self.level, line)
                              ELSE ParagraphOf(line))

\* C22: when its last element signals a line back, a container evaluates the
\* line anew: a blank line appends nothing; a 'p.s. ' line whose date does not
\* parse appends nothing and raises ValueError; a line of text that does not
\* scan appends an empty Paragraph and raises the error of the scan; every
\* other line appends exactly one child, the triggered block or a Paragraph
\* whose single line is the line, and raises nothing.
C22_RemainderRedispatch ==
    \A path \in LastIsBlockPaths :
      \A line \in FeedLines :
        LET self == ContainerAt(path)
            r == BlockFeed(self, line)
        IN  SignalsBack(self, line) =>
              IF Strip(line) = <<>>
              THEN r.self.elements = AfterSignal(self, line) /\ r.exc = NoExc
              ELSE IF BadDate(line)
              THEN /\ r.self.elements = AfterSignal(self, line)
                   /\ r.exc.type = "ValueError"
              ELSE IF ~IsTrigger(line) /\ StringInit(line).exc.type # "none"
              THEN /\ r.self.elements
                        = Append(AfterSignal(self, line), ParagraphNew)
                   /\ r.exc = StringInit(line).exc
              ELSE /\ r.self.elements
                        = Append(AfterSignal(self, line),
                                 NewChild(self.level, line))
                   /\ r.exc = NoExc

\* a Section was ended by a line of text, which is the single line of the
\* Paragraph after it
C22_Witness ==
    /\ Len(fed) = 3
    /\ LastFed.raised = "none"
    /\ Len(h.elements) = 2
    /\ h.elements[1].kind = "Section"
    /\ h.elements[1].ended
    /\ h.elements[2] = ParagraphOf(LastFed.line)

\* the number of nested open Sections and PostScripts on the trailing path
\* of a container
RECURSIVE Depth(_)
Depth(self) ==
    IF /\ Len(self.elements) > 0
       /\ LastOf(self).kind \in {"Section", "PostScript"}
       /\ ~LastOf(self).ended
    THEN 1 + Depth(LastOf(self))
    ELSE 0

\* the number of leading tabs of a line
RECURSIVE Tabs(_)
Tabs(line) ==
    IF line # <<>> /\ Head(line) = "\t" THEN 1 + Tabs(Tail(line)) ELSE 0

\* a container at the head of a chain of d open blocks after a non-blank line
\* with k leading tabs: the line goes down min(k, d) blocks, losing one tab
\* at each; with k < d the next block of the chain ends, and nothing else of
\* it changes, and the child of the line comes after it; with k >= d the last
\* block of the chain takes the line as Block.feed does
RECURSIVE Routed(_, _, _, _)
Routed(self, line, k, d) ==
    IF k > 0 /\ d > 0
    THEN SetLast(self, Routed(LastOf(self), Tail(line), k - 1, d - 1))
    ELSE IF d > 0
    THEN AppendElement(SetLast(self, [LastOf(self) EXCEPT !.ended = TRUE]),
                       NewChild(self.level, line))
    ELSE BlockFeed(self, line).self

\* this step is a call with a non-blank line that reaches the tree and
\* raises nothing
FeedsText ==
    /\ Called
    /\ h.metadata.ended
    /\ Strip(CalledLine) # <<>>
    /\ raised'.type = "none"

\* C23: a non-blank line with k leading tabs, fed when the trailing path is
\* a chain of d open Sections and PostScripts, is handled by the container at
\* depth min(k, d) without its first min(k, d) tabs; with k < d the block at
\* depth k + 1, and no other, ends, and the new child is appended to the
\* container at depth k.
C23_IndentationRouting ==
    [][FeedsText =>
         h'.elements
           = Routed(h, CalledLine, Tabs(CalledLine), Depth(h)).elements]_vars

\* a line without tab was fed to a chain of two open Sections: the outer
\* Section ended, the inner one is as it was, open, and the Paragraph of the
\* line follows the outer Section
C23_Witness ==
    /\ Len(fed) = 4
    /\ Tabs(LastFed.line) = 0
    /\ Len(h.elements) = 2
    /\ h.elements[1].kind = "Section"
    /\ h.elements[1].ended
    /\ Depth(h.elements[1]) = 1
    /\ h.elements[2] = ParagraphOf(LastFed.line)

\* the elements among which the block at a path stands
RECURSIVE Siblings(_, _)
Siblings(elements, path) ==
    IF Len(path) = 1 THEN elements
    ELSE Siblings(elements[path[1]].elements, Tail(path))

\* the paths of the Paragraphs of a tree that another block follows in
\* their container
FollowedParagraphs(elements) ==
    {path \in PathsOf(elements, {"Paragraph"}) :
        path[Len(path)] < Len(Siblings(elements, path))}

\* the trigger lines among the lines a caller can feed, 'p.s. ' with a date
\* that parses
TriggerLines == {line \in FeedLines : IsTrigger(line) /\ ~BadDate(line)}

\* a trigger line fed to a container whose last element is an open Paragraph
\* appends the triggered block, empty, and leaves the Paragraph as it is
TriggerBeatsParagraph ==
    \A path \in OpenParagraphPaths :
      \A line \in TriggerLines :
        LET self == ContainerAt(path)
            r == BlockFeed(self, line)
        IN  /\ r.exc = NoExc
            /\ r.self.elements
                 = Append(self.elements, Triggered(self.level, line))
            /\ Triggered(self.level, line).kind # "Paragraph"
            /\ Triggered(self.level, line).elements = <<>>

\* no step changes a Paragraph that another block follows
FollowedParagraphKept ==
    \A path \in FollowedParagraphs(h.elements) :
        BlockAt(h'.elements, path) = BlockAt(h.elements, path)

\* C24: a trigger line ('-- ', '```', 'p.s. ' with a valid date, trimmed
\* '(((') fed to a container whose last element is an open Paragraph is not
\* appended to the Paragraph: it appends the triggered block after it, which
\* holds no content; and a Paragraph that another block follows gets no line
\* in any later step.
C24_TriggersBeatParagraph ==
    [](TriggerBeatsParagraph) /\ [][FollowedParagraphKept]_vars

\* a '-- ' line was fed after a line of text: the open Paragraph has its one
\* line and the empty Section follows it
C24_Witness ==
    /\ Len(fed) = 3
    /\ StartsWith(LastFed.line, SectionMark)
    /\ Len(h.elements) = 2
    /\ h.elements[1].kind = "Paragraph"
    /\ ~h.elements[1].ended
    /\ Len(h.elements[1].elements) = 1
    /\ h.elements[2] = Triggered(h.level, LastFed.line)

\* the kinds of the blocks of a tree
Kinds == {"Paragraph", "Section", "PostScript", "CodeBlock", "EmbeddedHTML"}

\* blank lines: nothing, blanks, tabs
Blanks == {<<>>, <<" ">>, <<"\t">>, <<"\t", "\t">>, <<"\t", " ">>, <<" ", "\t">>}

\* the containers without element or with an ended last element
QuietPaths ==
    {path \in ContainerPaths :
        \/ ContainerAt(path).elements = <<>>
        \/ LastOf(ContainerAt(path)).ended}

\* C25: a blank line fed to a container (the document, a Section, a
\* PostScript) without element or with an ended last element leaves the
\* container as it is and raises nothing; and a blank line fed to any
\* container of any reachable document gives a tree with the same blocks at
\* the same places: no blank line creates a block.
C25_BlankLinesDropped ==
    /\ \A path \in QuietPaths :
         \A line \in Blanks :
           BlockFeed(ContainerAt(path), line)
             = [self |-> ContainerAt(path), exc |-> NoExc]
    /\ \A path \in ContainerPaths :
         \A line \in Blanks :
           PathsOf(BlockFeed(ContainerAt(path), line).self.elements, Kinds)
             = PathsOf(ContainerAt(path).elements, Kinds)

\* a blank line was fed to the document after the blank line that ended its
\* only Paragraph
C25_Witness ==
    /\ Len(fed) = 4
    /\ Strip(fed[3].line) = <<>>
    /\ Strip(fed[4].line) = <<>>
    /\ Len(h.elements) = 1
    /\ h.elements[1].kind = "Paragraph"
    /\ h.elements[1].ended

\* s is the sequence t or t without its last item
Grown(s, t) ==
    /\ Len(t) \in {Len(s), Len(s) + 1}
    /\ \A i \in 1..Len(s) : t[i] = s[i]

\* a block after a step: it is the same block, ended if it was; a Paragraph,
\* CodeBlock or EmbeddedHTML has its lines and at most one more; a Section
\* or PostScript has its elements but the last as they were, the last changed
\* in this way, and at most one more
RECURSIVE OnTrailingPath(_, _)
OnTrailingPath(old, new) ==
    /\ new.kind = old.kind
    /\ new.level = old.level
    /\ new.title = old.title
    /\ new.type = old.type
    /\ new.date = old.date
    /\ old.ended => new.ended
    /\ IF old.kind \in {"Section", "PostScript"}
       THEN /\ Len(new.elements) \in {Len(old.elements), Len(old.elements) + 1}
            /\ \A i \in 1..(Len(old.elements) - 1) :
                  new.elements[i] = old.elements[i]
            /\ old.elements # <<>> =>
                  OnTrailingPath(LastOf(old), new.elements[Len(old.elements)])
       ELSE Grown(old.elements, new.elements)

\* the paths of the blocks of a tree that are not the last of their container
NotLastPaths(elements) ==
    {path \in PathsOf(elements, Kinds) :
        path[Len(path)] < Len(Siblings(elements, path))}

\* a document after a call: only blocks on the path from the document
\* through the last element of each container have changed, by an append or
\* by ending; at most one block is new; every block that was not the last of
\* its container is as it was
TrailingStep(old, new) ==
    /\ Len(new.elements) \in {Len(old.elements), Len(old.elements) + 1}
    /\ \A i \in 1..(Len(old.elements) - 1) : new.elements[i] = old.elements[i]
    /\ old.elements # <<>> =>
          OnTrailingPath(LastOf(old), new.elements[Len(old.elements)])
    /\ Cardinality(PathsOf(new.elements, Kinds))
         <= Cardinality(PathsOf(old.elements, Kinds)) + 1
    /\ \A path \in NotLastPaths(old.elements) :
          BlockAt(new.elements, path) = BlockAt(old.elements, path)

\* a line went into the Section that follows a Paragraph
C26_Witness ==
    /\ Len(fed) = 4
    /\ LastFed.raised = "none"
    /\ Len(h.elements) = 2
    /\ h.elements[1].kind = "Paragraph"
    /\ h.elements[2].kind = "Section"
    /\ Len(h.elements[2].elements) = 1

\* C27 as stated: a call that raises an error leaves the metadata and the
\* tree of blocks as they were before the call.
C27_ErrorsAreAtomic ==
    [][(Called /\ raised'.type # "none") =>
          /\ h'.metadata = h.metadata
          /\ h'.elements = h.elements]_vars

\* a span of a bracket around the letter a, as text
SimpleSpan(key) == key \o <<"a">> \o CloseOf(key)

\* the span of a bracket around the letter a, as inline element
SpanOf(key) ==
    IF KindOf(key) = "Code" THEN Code(<<"a">>)
    ELSE Span(KindOf(key), <<Str(<<"a">>)>>)

\* an inline element that is not an empty literal text
NotEmptyText(element) == element.kind # "str" \/ element.text # <<>>

\* C28 as stated: scanning resumes right after a close delimiter: a line of
\* two spans, the second opening directly after the close of the first, is
\* parsed as the two spans with no literal text between them.
C28_ScanResumesAfterClose ==
    \A key \in OpenBrackets :
       ( /\ Len(fed) = 2
         /\ LastFed.line = SimpleSpan(key) \o SimpleSpan(key) )
       => /\ raised.type = "none"
          /\ SelectSeq(ParsedLine, NotEmptyText) = <<SpanOf(key), SpanOf(key)>>

\* the texts of the links and between the links of a line of two links
LinkTexts == {<<>>, <<"a">>}

Between == {<<>>, <<" ">>, <<"a">>}

\* a link construct with a text and the uri a, as text
LinkText(text) == <<"[">> \o text \o <<"]", "(", "a", ")">>

\* C29 as stated: a line of two link constructs that do not nest is parsed
\* as two Link elements in order, each with its text and uri, and the text
\* between them as literal text.
C29_SeveralLinks ==
    \A t1 \in LinkTexts, t2 \in LinkTexts, mid \in Between :
       ( /\ Len(fed) = 2
         /\ LastFed.line = LinkText(t1) \o mid \o LinkText(t2) )
       => /\ raised.type = "none"
          /\ SelectSeq(ParsedLine, NotEmptyText)
               = <<Link(StringInit(t1).elements, <<"a">>)>>
                   \o SelectSeq(<<Str(mid)>>, NotEmptyText)
                   \o <<Link(StringInit(t2).elements, <<"a">>)>>

\* a Hunyu document of the level of the document after the lines of the
\* first n Funyu.feed calls, one Hunyu.feed call each
RECURSIVE HunyuAfter(_)
HunyuAfter(n) ==
    IF n = 0 THEN HunyuNew(h.level + 1)
    ELSE HunyuFeed(HunyuAfter(n - 1), fed[n].line).self

\* no Funyu.feed call has raised
NoErrorSoFar == \A i \in 1..Len(fed) : fed[i].raised = "none"

\* the text holds no inline markup: no open delimiter and no link pattern
NoMarkup(text) == ~HasOpenBracket(text) /\ ~HasLinkPattern(text)

\* the lines of the Paragraphs of the document are literal texts without
\* inline markup
PlainLines ==
    \A path \in PathsOf(h.elements, {"Paragraph"}) :
       \A i \in 1..Len(BlockAt(h.elements, path).elements) :
          LET line == BlockAt(h.elements, path).elements[i]
          IN  /\ Len(line.elements) = 1
              /\ line.elements[1].kind = "str"
              /\ NoMarkup(line.elements[1].text)

\* C30: after every step of a sequence of calls of which none has raised and
\* whose lines of text hold no inline markup, the Hunyu document fed the same
\* lines has the metadata and the tree of blocks of the Funyu document (kinds,
\* levels, titles, types, dates, ended flags, lines) and the same as_html().
C30_FunyuAndHunyuAgree ==
    (NoErrorSoFar /\ PlainLines) =>
        /\ HunyuAfter(Len(fed)).metadata = h.metadata
        /\ HunyuAfter(Len(fed)).level = h.level
        /\ HunyuAfter(Len(fed)).elements = h.elements
        /\ HunyuAsHtml(HunyuAfter(Len(fed))) = FunyuAsHtml(h)

\* both documents hold a Section with a Paragraph of one line after four
\* calls
C30_Witness ==
    /\ NoErrorSoFar
    /\ PlainLines
    /\ Len(fed) = 4
    /\ Len(h.elements) = 1
    /\ h.elements[1].kind = "Section"
    /\ Len(h.elements[1].elements) = 1
    /\ h.elements[1].elements[1].kind = "Paragraph"
    /\ Len(h.elements[1].elements[1].elements) = 1
    /\ HunyuAfter(4).elements = h.elements

\* C26: a call changes only blocks on the path from the document through
\* the last element of each container, by appending to them or ending them,
\* and appends at most one block to the tree; every block that is not the
\* last of its container is after the call as it was before.  This holds of
\* every step of the Funyu document and of every Hunyu.feed call on the Hunyu
\* document fed the same lines.
C26_OnlyTrailingPathChanges ==
    /\ [][TrailingStep(h, h')]_vars
    /\ [](LET hunyu == HunyuAfter(Len(fed))
          IN  \A line \in FeedLines :
                 TrailingStep(hunyu, HunyuFeed(hunyu, line).self))

====
